---- MODULE Spec2Model ----
(***************************************************************************)
(* S4TK basic merger: the merge / rollover / metadata-unmerge engine over  *)
(* the S4TK adapter (src/core/s4tk.ts).                                    *)
(*                                                                         *)
(* The adapter (createEmptyPackage, loadPackage, appendAllResources,       *)
(* calculatePackageStats) and the metadata resource format are in the      *)
(* repository and are translated from it.  basic/merge.ts (mergeAll) is a  *)
(* TODO stub and basic/metadata.ts does not exist: the orchestration of a  *)
(* group merge (rollover, collision policy, descriptors) and unmerge are   *)
(* modelled from the design (spec.md 4.1, 4.2) on top of the adapter.      *)
(***************************************************************************)
EXTENDS Integers, Sequences, FiniteSets, TLC

\* ------------------------------------------------------------------ bounds
MaxInputs == 3
MaxCapResources == 2
MaxAddFailures == 2
MaxWriters == 2
MaxPaths == 3
MaxPieces == 4
MaxKeys == 3
MaxLoaded == 2

\* --------------------------------------------------------- program constants
BytesPerResource == 1024
MetadataType == 2142285194
MAX_TEMP_ATTEMPTS == 20
ASCII_PRIORITY_LIMIT == 127

\* Instance ids of the ordinary keys, and the payloads an input may hold under
\* each: key 1 occurs with two different payloads (collisions and duplicates),
\* key 2 with one (exact duplicates only).
KeyInstances == {1, 2}
PayloadBytes(n) == IF n = 1 THEN {"pa", "pb"} ELSE {"pa"}
Policies == {"keep-last", "keep-first", "shadow-original"}
AdapterRevisions == {"collect", "skip"}

\* ------------------------------------------------------------- small helpers
Min(S) == CHOOSE x \in S : \A y \in S : x <= y

RECURSIVE SortedSeq(_)
SortedSeq(S) == IF S = {} THEN <<>> ELSE <<Min(S)>> \o SortedSeq(S \ {Min(S)})

RECURSIVE Pick(_, _, _)
\* the elements of s whose index is in idx, in order, from position i on
Pick(s, idx, i) ==
  IF i > Len(s) THEN <<>>
  ELSE (IF i \in idx THEN <<s[i]>> ELSE <<>>) \o Pick(s, idx, i + 1)

RECURSIVE Flatten(_)
Flatten(ss) == IF ss = <<>> THEN <<>> ELSE Head(ss) \o Flatten(Tail(ss))

Range(s) == {s[i] : i \in 1..Len(s)}

\* ------------------------------------------------------------------- keys
ResourceKey(n) == [type |-> 1, group |-> 0, instance |-> n]
OrdinaryKeyZero == [type |-> 1, group |-> 0, instance |-> 0]
SentinelKey == [type |-> MetadataType, group |-> 0, instance |-> 0]

\* A container: records with pairwise distinct keys, in key order.
MkContainer(S, f) ==
  LET ks == SortedSeq(S)
  IN  [j \in 1..Len(ks) |-> [key |-> ResourceKey(ks[j]), payload |-> f[ks[j]]]]

Containers ==
  UNION { { MkContainer(S, f) : f \in { g \in [S -> {"pa", "pb"}] : \A n \in S : g[n] \in PayloadBytes(n) } } :
            S \in SUBSET KeyInstances }

InputLists == UNION { [1..n -> Containers] : n \in 0..MaxInputs }

\* A(3), B(2), C(4) with nine distinct keys (spec.md 8, scenarios)
ScenarioInputs ==
  << MkContainer(1..3, [n \in 1..3 |-> "pa"]),
     MkContainer(4..5, [n \in 4..5 |-> "pa"]),
     MkContainer(6..9, [n \in 6..9 |-> "pa"]) >>

Caps == { k * BytesPerResource : k \in 1..MaxCapResources }

OptionSets ==
  [ deduplication : BOOLEAN,
    compression : {FALSE},
    collisionPolicy : Policies,
    maxPartSizeBytes : {0} \cup Caps ]

\* ---------------------------------------------------------------- adapter
CalculatePackageStatsUnscaled(entries) ==
  [ resourceCount |-> Len(entries),
    estimatedSize |-> Len(entries) ]

\* calculatePackageStats: resourceCount and the estimated size of a package
CalculatePackageStats(entries) ==
  [ resourceCount |-> Len(entries),
    estimatedSize |-> Len(entries) * BytesPerResource ]

\* createEmptyPackage
CreateEmptyPackage == [entries |-> <<>>, resourceCount |-> 0, estimatedSize |-> 0]

\* loadPackage (success path).  src is a history tag naming the input an entry
\* was read from; no operation of the engine reads it.
LoadPackage(c, i) ==
  LET es == [j \in 1..Len(c) |-> [key |-> c[j].key, value |-> c[j].payload, src |-> i]]
  IN  [ entries |-> es,
        resourceCount |-> CalculatePackageStats(es).resourceCount,
        estimatedSize |-> CalculatePackageStats(es).estimatedSize ]

AppendAllResourcesStaleStats(target, source, failing, revision) ==
  LET ok == (1..Len(source.entries)) \ failing
      es == target.entries \o Pick(source.entries, ok, 1)
  IN  [ pkg   |-> [ entries |-> es,
                    resourceCount |-> target.resourceCount,
                    estimatedSize |-> target.estimatedSize ],
        threw |-> (revision = "collect" /\ failing # {}) ]

\* appendAllResources(target, source): target.add for every entry of the source;
\* failing = the entries whose add throws.  Revision "collect" throws S4TKError
\* after the loop when any add failed, revision "skip" continues silently.  The
\* target's stats are recomputed in both.
AppendAllResources(target, source, failing, revision) ==
  LET ok    == (1..Len(source.entries)) \ failing
      es    == target.entries \o Pick(source.entries, ok, 1)
      stats == CalculatePackageStats(es)
  IN  [ pkg   |-> [ entries |-> es,
                    resourceCount |-> stats.resourceCount,
                    estimatedSize |-> stats.estimatedSize ],
        threw |-> (revision = "collect" /\ failing # {}) ]

\* --------------------------------------------------------- collision policy
\* the entries of a part that carry key k
Twins(T, k) == { t \in 1..Len(T) : T[t].key = k }

\* deduplication: an entry with the same key and the same payload bytes is
\* already in the part
IsDuplicate(T, e, options) ==
  options.deduplication /\ \E t \in Twins(T, e.key) : T[t].value = e.value

\* the resolver: what happens to entry e of the next input, given the entries T
\* already appended to the part
Resolve(T, e, options) ==
  IF IsDuplicate(T, e, options) THEN "deduplicated"
  ELSE IF Twins(T, e.key) = {} THEN "append"
  ELSE IF options.collisionPolicy = "keep-last" THEN "replace"
  ELSE IF options.collisionPolicy = "keep-first" THEN "overwritten"
  ELSE "append"

\* entries of the part that the next input overwrites (keep-last)
Overwritten(T, source, options) ==
  UNION { Twins(T, source.entries[j].key) :
            j \in { i \in 1..Len(source.entries) :
                      Resolve(T, source.entries[i], options) = "replace" } }

\* entries of the next input that are appended to the part
Retained(T, source, options) ==
  { j \in 1..Len(source.entries) :
      Resolve(T, source.entries[j], options) \in {"append", "replace"} }

RemoveEntries(target, removed) ==
  LET es == Pick(target.entries, (1..Len(target.entries)) \ removed, 1)
  IN  [ entries |-> es,
        resourceCount |-> CalculatePackageStats(es).resourceCount,
        estimatedSize |-> CalculatePackageStats(es).estimatedSize ]

\* ------------------------------------------------------------- descriptors
DataHash(bytes) == [alg |-> "sha256", of |-> bytes]
NoHash == [alg |-> "none", of |-> "none"]

CountState(entries, st) == Cardinality({ j \in 1..Len(entries) : entries[j].state = st })

\* resourceRanges of one input: the slice startIndex..endIndex (0-based,
\* inclusive) of the part's record sequence, or no range when it is empty
MkRanges(startIndex, endIndex) ==
  IF endIndex < startIndex THEN <<>>
  ELSE << [startIndex |-> startIndex, endIndex |-> endIndex] >>

NewDescriptor(i, T, source, startIndex, endIndex, options) ==
  LET es == [ j \in 1..Len(source.entries) |->
                LET st == IF Resolve(T, source.entries[j], options) = "overwritten"
                          THEN "overwritten" ELSE "kept"
                IN  [ key |-> source.entries[j].key,
                      state |-> st,
                      dataHash |-> IF st = "kept" THEN DataHash(source.entries[j].value)
                                   ELSE NoHash ] ]
  IN  [ input |-> i,
        resourceCount |-> source.resourceCount,
        keptCount |-> CountState(es, "kept"),
        overwrittenCount |-> CountState(es, "overwritten"),
        resourceRanges |-> MkRanges(startIndex, endIndex),
        entries |-> es ]

\* an earlier descriptor after entries `removed` (1-based positions, carrying
\* the keys `keys`) were overwritten by a later input
ShiftRanges(ranges, removed) ==
  LET shifted == [ r \in 1..Len(ranges) |->
                     [ startIndex |-> ranges[r].startIndex
                         - Cardinality({ t \in removed : t - 1 < ranges[r].startIndex }),
                       endIndex |-> ranges[r].endIndex
                         - Cardinality({ t \in removed : t - 1 <= ranges[r].endIndex }) ] ]
  IN  Pick(shifted, { r \in 1..Len(shifted) : shifted[r].endIndex >= shifted[r].startIndex }, 1)

MarkOverwritten(d, keys, removed) ==
  LET es == [ j \in 1..Len(d.entries) |->
                IF d.entries[j].key \in keys /\ d.entries[j].state = "kept"
                THEN [ d.entries[j] EXCEPT !.state = "overwritten", !.dataHash = NoHash ]
                ELSE d.entries[j] ]
  IN  [ d EXCEPT !.entries = es,
                 !.keptCount = CountState(es, "kept"),
                 !.overwrittenCount = CountState(es, "overwritten"),
                 !.resourceRanges = ShiftRanges(d.resourceRanges, removed) ]

\* ---------------------------------------------------------------- metadata
ToolVersion == "s4merge"

\* MergeMetadata (design document 10.1)
BuildMetadata(descs, options, now) ==
  [ version |-> [major |-> 1, minor |-> 0],
    mergeTimestamp |-> now,
    toolVersion |-> ToolVersion,
    originalPackages |-> descs,
    mergeOptions |-> [ deduplication |-> options.deduplication,
                       compression |-> options.compression,
                       metadataEnabled |-> TRUE,
                       collisionPolicy |-> options.collisionPolicy ] ]

\* JSON-serialized metadata as the content of a raw resource, and back
EncodeMetadata(meta) == [format |-> "json", body |-> meta]
DecodeMetadata(value) == value.body

MetadataRecord(descs, options, now) ==
  [ key |-> SentinelKey, value |-> EncodeMetadata(BuildMetadata(descs, options, now)), src |-> 0 ]

\* ------------------------------------------------------------ merge engine
EmptyPart == [ pkg |-> CreateEmptyPackage, descs |-> <<>>, placed |-> <<>> ]

\* size cap: the projected size of the part with the next input exceeds the cap
RolloverNeeded(pkg, source, options) ==
  /\ options.maxPartSizeBytes > 0
  /\ pkg.estimatedSize + source.estimatedSize > options.maxPartSizeBytes

\* the part the next input is appended to: a new one after a rollover
StartPartKeep(c, roll) == c
StartPart(c, roll) == IF roll THEN EmptyPart ELSE c

\* finalize a part: append its metadata record at the sentinel key
FinalizePart(c, options, now) ==
  LET m == MetadataRecord(c.descs, options, now)
  IN  [ records |-> c.pkg.entries \o <<m>>,
        metadataRecord |-> m,
        placed |-> c.placed ]

\* the part under construction after input i (loaded as source) was appended,
\* with `failing` the retained entries whose add throws
AppendToPart(c, i, source, failing, options, revision) ==
  LET T        == c.pkg.entries
      removed  == Overwritten(T, source, options)
      keys     == { T[t].key : t \in removed }
      pruned   == RemoveEntries(c.pkg, removed)
      filtered == [ source EXCEPT !.entries = Pick(source.entries, Retained(T, source, options), 1) ]
      res      == AppendAllResources(pruned, filtered, failing, revision)
      older    == [ d \in 1..Len(c.descs) |-> MarkOverwritten(c.descs[d], keys, removed) ]
      desc     == NewDescriptor(i, T, source, pruned.resourceCount,
                                res.pkg.resourceCount - 1, options)
  IN  [ part  |-> [ pkg |-> res.pkg, descs |-> Append(older, desc), placed |-> Append(c.placed, i) ],
        threw |-> res.threw ]

\* ----------------------------------------------------------------- unmerge
SupportedMajor == 1

RECURSIVE SliceRanges(_, _)
\* the records of the container named by a descriptor's resourceRanges
SliceRanges(records, ranges) ==
  IF ranges = <<>> THEN <<>>
  ELSE SubSeq(records, Head(ranges).startIndex + 1, Head(ranges).endIndex + 1)
         \o SliceRanges(records, Tail(ranges))

MismatchesNone(candidate, d) == {}

\* keys of the candidate records whose recomputed payload hash differs from
\* the hash the descriptor recorded
Mismatches(candidate, d) ==
  { candidate[j].key : j \in { i \in 1..Len(candidate) :
      \E e \in 1..Len(d.entries) :
        /\ d.entries[e].key = candidate[i].key
        /\ d.entries[e].state = "kept"
        /\ d.entries[e].dataHash # DataHash(candidate[i].value) } }

MissingKeysNone(d) == {}

\* keys the descriptor lost to a collision
MissingKeys(d) ==
  { d.entries[e].key : e \in { i \in 1..Len(d.entries) : d.entries[i].state = "overwritten" } }

Reconstruct(records, d) ==
  LET candidate == SliceRanges(records, d.resourceRanges)
      bad       == Mismatches(candidate, d)
  IN  [ descriptor |-> d,
        reconstructedContainer |->
          [ j \in 1..Len(candidate) |-> [key |-> candidate[j].key, payload |-> candidate[j].value] ],
        success |-> (bad = {}),
        issues |-> { [kind |-> "ResourceIntegrityMismatch", key |-> k] : k \in bad }
                     \cup { [kind |-> "PartialReconstruction", key |-> k] : k \in MissingKeys(d) } ]

UnmergeLenient(records) ==
  LET at == { i \in 1..Len(records) : records[i].key = SentinelKey }
  IN  IF at = {} THEN [error |-> "MetadataMissing", outcomes |-> <<>>]
      ELSE LET value == records[Min(at)].value
           IN  IF value.format # "json"
               THEN [error |-> "MetadataCorrupt", outcomes |-> <<>>]
               ELSE LET descs == DecodeMetadata(value).originalPackages
                    IN  [ error |-> IF DecodeMetadata(value).version.major # SupportedMajor
                                    THEN "UnsupportedMetadataVersion" ELSE "none",
                          outcomes |-> [ d \in 1..Len(descs) |-> Reconstruct(records, descs[d]) ] ]

\* unmerge(container)
Unmerge(records) ==
  LET at == { i \in 1..Len(records) : records[i].key = SentinelKey }
  IN  IF at = {} THEN [error |-> "MetadataMissing", outcomes |-> <<>>]
      ELSE LET value == records[Min(at)].value
           IN  IF value.format # "json"
               THEN [error |-> "MetadataCorrupt", outcomes |-> <<>>]
               ELSE IF DecodeMetadata(value).version.major # SupportedMajor
               THEN [error |-> "UnsupportedMetadataVersion", outcomes |-> <<>>]
               ELSE LET descs == DecodeMetadata(value).originalPackages
                    IN  [ error |-> "none",
                          outcomes |-> [ d \in 1..Len(descs) |-> Reconstruct(records, descs[d]) ] ]

\* ------------------------------------------------------------------- state
VARIABLES
  inputs,     \* the frozen ordered input list of the group
  options,    \* MergeOptions and the size cap
  revision,   \* which revision of the adapter's appendAllResources is built
  clock,      \* wall clock of the run
  run,        \* "first" or "second" run over the same inputs and options
  first,      \* the parts the first run returned
  status,     \* "idle", "running", "done", "failed"
  error,      \* the failure of a failed run
  next,       \* index of the next input to append
  addFailures,\* number of target.add calls that threw so far
  cur,        \* the part under construction
  parts,      \* the finalized parts, in part order
  unmerged,   \* unmerge results of the returned parts, in part order
  duplicateKeysSupported, \* whether the codec's format can hold duplicate keys
  tamper,     \* what was done to a returned container before it is unmerged
  fsx,        \* the atomic writer: file system and writeFileAtomic calls
  scan,       \* the scanner: its inputs and results
  cli,        \* the 'basic' subcommand: its arguments, options and the steps it ran
  det,        \* the determinism utilities: the strings under test and the calls made
  s4tk        \* the adapter's loaders: the files on disk and the call made

mergeVars == << inputs, options, revision, clock, run, first, status, error, next, addFailures,
                cur, parts, unmerged, duplicateKeysSupported, tamper >>

vars == << mergeVars, fsx, scan, cli, det, s4tk >>

\* the variables the merge engine, the atomic writer and the scanner leave alone
notMerge == << fsx, scan, cli, det, s4tk >>
notFsx == << mergeVars, scan, cli, det, s4tk >>
notScan == << mergeVars, fsx, cli, det, s4tk >>
notCli == << mergeVars, fsx, scan, det, s4tk >>
notDet == << mergeVars, fsx, scan, cli, s4tk >>
notS4tk == << mergeVars, fsx, scan, cli, det >>

FsxIdle == [state |-> "unused"]
ScanIdle == [state |-> "unused"]
CliIdle == [state |-> "unused"]
DetIdle == [state |-> "unused"]
S4tkIdle == [state |-> "unused"]
NoTamper == [kind |-> "none", part |-> 0, index |-> 0]

MergeIdle ==
  /\ inputs = <<>>
  /\ options = [ deduplication |-> FALSE, compression |-> FALSE,
                 collisionPolicy |-> "keep-last", maxPartSizeBytes |-> 0 ]
  /\ revision = "collect"
  /\ clock = 0
  /\ run = "first"
  /\ first = <<>>
  /\ status = "unused"
  /\ error = "none"
  /\ next = 1
  /\ addFailures = 0
  /\ cur = [ pkg |-> CreateEmptyPackage, descs |-> <<>>, placed |-> <<>> ]
  /\ parts = <<>>
  /\ unmerged = <<>>
  /\ duplicateKeysSupported = TRUE
  /\ tamper = NoTamper

Init ==
  /\ \/ inputs \in InputLists /\ options \in OptionSets
     \/ /\ inputs = ScenarioInputs
        /\ options \in { o \in [ deduplication : BOOLEAN, compression : {FALSE},
                                 collisionPolicy : {"keep-last"},
                                 maxPartSizeBytes : {0, 5 * BytesPerResource} ] : TRUE }
  /\ revision \in AdapterRevisions
  /\ clock = 0
  /\ run = "first"
  /\ first = <<>>
  /\ status = "idle"
  /\ error = "none"
  /\ next = 1
  /\ addFailures = 0
  /\ cur = EmptyPart
  /\ parts = <<>>
  /\ unmerged = <<>>
  /\ duplicateKeysSupported \in BOOLEAN
  /\ tamper = NoTamper
  /\ fsx = FsxIdle
  /\ scan = ScanIdle
  /\ cli = CliIdle
  /\ det = DetIdle
  /\ s4tk = S4tkIdle

FailKeepParts(e, faults) ==
  /\ status' = "failed"
  /\ addFailures' = addFailures + faults
  /\ error' = e
  /\ UNCHANGED << inputs, options, revision, clock, run, first, next, unmerged, cur, parts,
                  duplicateKeysSupported, tamper, notMerge >>

Fail(e, faults) ==
  /\ status' = "failed"
  /\ addFailures' = addFailures + faults
  /\ error' = e
  /\ cur' = EmptyPart
  /\ parts' = <<>>
  /\ UNCHANGED << inputs, options, revision, clock, run, first, next, unmerged,
                  duplicateKeysSupported, tamper, notMerge >>

StartUnchecked ==
  /\ status = "idle"
  /\ status' = "running"
  /\ UNCHANGED << inputs, options, revision, clock, run, first, error, next,
                  addFailures, cur, parts, unmerged, duplicateKeysSupported,
                  tamper, notMerge >>

\* mergeGroup, entry: the policy/format check precedes all append work
Start ==
  /\ status = "idle"
  /\ IF options.collisionPolicy = "shadow-original" /\ ~duplicateKeysSupported
     THEN Fail("PolicyConflict", 0)
     ELSE /\ status' = "running"
          /\ UNCHANGED << inputs, options, revision, clock, run, first, error, next,
                          addFailures, cur, parts, unmerged, duplicateKeysSupported,
                          tamper, notMerge >>

\* mergeGroup, one input: rollover check, collision policy, append
AppendInput ==
  /\ status = "running"
  /\ next <= Len(inputs)
  /\ LET source == LoadPackage(inputs[next], next)
         roll   == RolloverNeeded(cur.pkg, source, options)
         base   == StartPart(cur, roll)
         n      == Cardinality(Retained(base.pkg.entries, source, options))
     IN  \E failing \in {{}} \cup { {j} : j \in { k \in 1..n : addFailures < MaxAddFailures } } :
           LET res == AppendToPart(base, next, source, failing, options, revision)
           IN  IF res.threw
               THEN Fail("S4TKError", Cardinality(failing))
               ELSE /\ cur' = res.part
                    /\ parts' = IF roll THEN Append(parts, FinalizePart(cur, options, clock))
                                ELSE parts
                    /\ next' = next + 1
                    /\ addFailures' = addFailures + Cardinality(failing)
                    /\ UNCHANGED << inputs, options, revision, clock, run, first, status, error,
                                    unmerged, duplicateKeysSupported, tamper, notMerge >>

\* mergeGroup, an input that fails to decode aborts the group
InputUnreadable ==
  /\ status = "running"
  /\ next <= Len(inputs)
  /\ Fail("InputUnreadable", 0)

\* mergeGroup, end: the last part is finalized and the parts are returned
FinishGroup ==
  /\ status = "running"
  /\ next > Len(inputs)
  /\ parts' = Append(parts, FinalizePart(cur, options, clock))
  /\ cur' = EmptyPart
  /\ status' = "done"
  /\ UNCHANGED << inputs, options, revision, clock, run, first, error, next, addFailures,
                  unmerged, duplicateKeysSupported, tamper, notMerge >>

\* unmerge of every returned part, each on its own
UnmergeParts ==
  /\ status = "done"
  /\ unmerged = <<>>
  /\ unmerged' = [ p \in 1..Len(parts) |-> Unmerge(parts[p].records) ]
  /\ UNCHANGED << inputs, options, revision, clock, run, first, status, error, next,
                  addFailures, cur, parts, duplicateKeysSupported, tamper, notMerge >>

\* ------------------------------------------- damage to a returned container
TamperKinds == {"dropMetadata", "badVersion", "malformed", "flipByte"}

\* the records of a container after the damage: the metadata record removed,
\* its version raised to an unknown major, its payload made unparsable, or the
\* payload bytes of the record at `index` changed
Tampered(records, kind, index) ==
  CASE kind = "dropMetadata" ->
         Pick(records, { r \in 1..Len(records) : records[r].key # SentinelKey }, 1)
    [] kind = "badVersion" ->
         [ records EXCEPT ![index].value.body.version.major = SupportedMajor + 1 ]
    [] kind = "malformed" ->
         [ records EXCEPT ![index].value = [format |-> "garbage", body |-> <<>>] ]
    [] kind = "flipByte" ->
         [ records EXCEPT ![index].value = "xx" ]

\* one returned container is damaged on disk before it is unmerged
Tamper ==
  /\ status = "done"
  /\ unmerged = <<>>
  /\ tamper = NoTamper
  /\ \E p \in 1..Len(parts) : \E kind \in TamperKinds :
       \E index \in IF kind = "flipByte" THEN 1..(Len(parts[p].records) - 1)
                    ELSE {Len(parts[p].records)} :
         /\ parts' = [ parts EXCEPT ![p].records = Tampered(@, kind, index) ]
         /\ tamper' = [kind |-> kind, part |-> p, index |-> index]
  /\ UNCHANGED << inputs, options, revision, clock, run, first, status, error, next,
                  addFailures, cur, unmerged, duplicateKeysSupported, notMerge >>

\* the same group is merged again, later, with the same inputs and options
Rerun ==
  /\ status = "done"
  /\ run = "first"
  /\ run' = "second"
  /\ first' = parts
  /\ clock' = clock + 1
  /\ status' = "idle"
  /\ next' = 1
  /\ cur' = EmptyPart
  /\ parts' = <<>>
  /\ unmerged' = <<>>
  /\ UNCHANGED << inputs, options, revision, error, addFailures, duplicateKeysSupported,
                  tamper, notMerge >>

Next ==
  \/ Start
  \/ AppendInput
  \/ InputUnreadable
  \/ FinishGroup
  \/ UnmergeParts

Spec == Init /\ [][Next]_vars

\* two consecutive runs of the same group
NextRerun ==
  \/ Next
  \/ Rerun

SpecRerun == Init /\ [][NextRerun]_vars

\* a run, damage to one returned container, unmerge
NextTamper ==
  \/ Next
  \/ Tamper

SpecTamper == Init /\ [][NextTamper]_vars

TypeOK ==
  /\ status \in {"idle", "running", "done", "failed"}
  /\ next \in 1..(Len(inputs) + 1)
  /\ Len(unmerged) <= Len(parts)

\* -------------------------------------------- merged containers as inputs
\* the container an earlier merge of the single input c returned: the records
\* of c followed by that merge's metadata record at the sentinel key
MergedContainer(c, earlier) ==
  LET built == AppendToPart(EmptyPart, 1, LoadPackage(c, 1), {}, earlier, "collect").part
      rs    == FinalizePart(built, earlier, 0).records
  IN  [ j \in 1..Len(rs) |-> [ key |-> rs[j].key, payload |-> rs[j].value ] ]

EarlierOptions ==
  [ deduplication |-> FALSE, compression |-> FALSE, collisionPolicy |-> "keep-last",
    maxPartSizeBytes |-> 0 ]

\* inputs of a run that takes outputs of earlier runs among its inputs
SentinelInputPool ==
  { MkContainer({1}, [ n \in {1} |-> "pa" ]),
    MkContainer({2}, [ n \in {2} |-> "pa" ]),
    MergedContainer(MkContainer({1}, [ n \in {1} |-> "pb" ]), EarlierOptions),
    MergedContainer(MkContainer({2}, [ n \in {2} |-> "pa" ]), EarlierOptions) }

HoldsSentinel(c) == \E j \in 1..Len(c) : c[j].key = SentinelKey

InitSentinel ==
  /\ inputs \in { l \in UNION { [ 1..n -> SentinelInputPool ] : n \in 1..2 } :
                    \E i \in 1..Len(l) : HoldsSentinel(l[i]) }
  /\ options \in OptionSets
  /\ revision \in AdapterRevisions
  /\ clock = 1
  /\ run = "first"
  /\ first = <<>>
  /\ status = "idle"
  /\ error = "none"
  /\ next = 1
  /\ addFailures = 0
  /\ cur = EmptyPart
  /\ parts = <<>>
  /\ unmerged = <<>>
  /\ duplicateKeysSupported \in BOOLEAN
  /\ tamper = NoTamper
  /\ fsx = FsxIdle
  /\ scan = ScanIdle
  /\ cli = CliIdle
  /\ det = DetIdle
  /\ s4tk = S4tkIdle

SpecSentinel == InitSentinel /\ [][Next]_vars

\* ------------------------------------------------------------ atomic writer
\* writeFileAtomic (util/fsx.ts) against one directory.  A file is an inode
\* with data; the directory maps names to inodes.  Both have a visible state
\* and a durable state (what a power loss leaves); fsync moves visible to
\* durable, and the system may do so on its own at any time.
WriterIds == << "w1", "w2", "w3" >>
Writers == { WriterIds[i] : i \in 1..MaxWriters }

\* the random suffixes a temp name may get
TempNames == {"t1", "t2"}
FileNames == {"target"} \cup TempNames

\* "old": the file at the target before any call; "stale": a temp file left by
\* an earlier run
Inodes == Writers \cup {"old", "stale"}

RunningPcs == {"createTemp", "open", "write", "sync", "rename", "fsyncDir", "cleanup"}

FsxStart(orig, stale, active) ==
  LET d == [ n \in FileNames |-> IF n = "target" THEN orig
                                 ELSE IF n \in stale THEN "stale" ELSE "none" ]
      f == [ i \in Inodes |-> IF i \in Writers THEN "empty" ELSE "full" ]
  IN  [ state    |-> "used",
        orig     |-> orig,
        pc       |-> [ w \in Writers |-> IF w \in active THEN "createTemp" ELSE "unused" ],
        temp     |-> [ w \in Writers |-> "none" ],
        attempts |-> [ w \in Writers |-> 0 ],
        failed   |-> [ w \in Writers |-> "none" ],
        unlinked |-> [ w \in Writers |-> "none" ],
        dir      |-> d,
        ddir     |-> d,
        data     |-> f,
        ddata    |-> f,
        crashed  |-> FALSE ]

\* a call rejects: the step that failed is remembered
Reject(f, w, step) == [ f EXCEPT !.pc[w] = "rejected", !.failed[w] = step ]

\* createTempFile, one attempt with the candidate name n:
\* open(O_CREAT | O_EXCL), close
TempAttempt(f, w, n, outcome) ==
  CASE outcome = "EEXIST" ->
         IF f.attempts[w] + 1 >= MAX_TEMP_ATTEMPTS
         THEN Reject([ f EXCEPT !.attempts[w] = 0 ], w, "createTemp")
         ELSE [ f EXCEPT !.attempts[w] = @ + 1 ]
    [] outcome = "openError" ->
         Reject([ f EXCEPT !.attempts[w] = 0 ], w, "createTemp")
    [] outcome = "closeError" ->
         Reject([ f EXCEPT !.attempts[w] = 0, !.dir[n] = w, !.temp[w] = n ], w, "createTemp")
    [] outcome = "created" ->
         [ f EXCEPT !.attempts[w] = 0, !.dir[n] = w, !.temp[w] = n, !.pc[w] = "open" ]

\* handle.sync(): the data of the temp file is durable
HandleSyncSkipped(f, w) == f
HandleSync(f, w) == [ f EXCEPT !.ddata[w] = f.data[w] ]

\* safeUnlink(tempPath): errors other than ENOENT are swallowed
SafeUnlinkKeeps(f, w, ok) == [ f EXCEPT !.unlinked[w] = IF ok THEN "ok" ELSE "failed" ]
SafeUnlink(f, w, ok) ==
  IF ok THEN [ f EXCEPT !.dir[f.temp[w]] = "none", !.unlinked[w] = "ok" ]
  ELSE [ f EXCEPT !.unlinked[w] = "failed" ]

\* fs.rename(tempPath, targetPath): replaces the target in one step
RenameOver(f, w) == [ f EXCEPT !.dir["target"] = w, !.dir[f.temp[w]] = "none" ]

\* fsyncDir(directory)
SyncDirectory(f) == [ f EXCEPT !.ddir = f.dir ]

\* createTempFile opening its candidate without O_EXCL
CreateTempFileShared(w) ==
  /\ fsx.state = "used"
  /\ ~fsx.crashed
  /\ fsx.pc[w] = "createTemp"
  /\ \E n \in TempNames :
       \E outcome \in {"created", "openError", "closeError"} :
         fsx' = TempAttempt(fsx, w, n, outcome)
  /\ UNCHANGED notFsx

\* createTempFile: a candidate name per attempt, reserved by open(O_CREAT |
\* O_EXCL), which fails with EEXIST when the name is taken
CreateTempFile(w) ==
  /\ fsx.state = "used"
  /\ ~fsx.crashed
  /\ fsx.pc[w] = "createTemp"
  /\ \E n \in TempNames :
       \E outcome \in IF fsx.dir[n] # "none" THEN {"EEXIST"}
                      ELSE {"created", "openError", "closeError"} :
         fsx' = TempAttempt(fsx, w, n, outcome)
  /\ UNCHANGED notFsx

\* fs.open(tempPath, 'w')
OpenTemp(w) ==
  /\ fsx.state = "used"
  /\ ~fsx.crashed
  /\ fsx.pc[w] = "open"
  /\ \/ fsx' = [ fsx EXCEPT !.data[w] = "empty", !.pc[w] = "write" ]
     \/ fsx' = [ fsx EXCEPT !.failed[w] = "open", !.pc[w] = "cleanup" ]
  /\ UNCHANGED notFsx

\* handle.writeFile(content)
WriteTemp(w) ==
  /\ fsx.state = "used"
  /\ ~fsx.crashed
  /\ fsx.pc[w] = "write"
  /\ \/ fsx' = [ fsx EXCEPT !.data[w] = "full", !.pc[w] = "sync" ]
     \/ \E written \in {"empty", "partial"} :
          fsx' = [ fsx EXCEPT !.data[w] = written, !.failed[w] = "write", !.pc[w] = "cleanup" ]
  /\ UNCHANGED notFsx

\* handle.sync(), then closeQuietly(handle)
SyncTemp(w) ==
  /\ fsx.state = "used"
  /\ ~fsx.crashed
  /\ fsx.pc[w] = "sync"
  /\ \/ fsx' = [ HandleSync(fsx, w) EXCEPT !.pc[w] = "rename" ]
     \/ fsx' = [ fsx EXCEPT !.failed[w] = "sync", !.pc[w] = "cleanup" ]
  /\ UNCHANGED notFsx

\* the catch block: closeQuietly, safeUnlink(tempPath), throw
Cleanup(w) ==
  /\ fsx.state = "used"
  /\ ~fsx.crashed
  /\ fsx.pc[w] = "cleanup"
  /\ \E ok \in BOOLEAN :
       fsx' = [ SafeUnlink(fsx, w, ok) EXCEPT !.pc[w] = "rejected" ]
  /\ UNCHANGED notFsx

\* fs.rename(tempPath, targetPath); on failure the temp file is left in place
RenameTemp(w) ==
  /\ fsx.state = "used"
  /\ ~fsx.crashed
  /\ fsx.pc[w] = "rename"
  /\ \/ fsx' = [ RenameOver(fsx, w) EXCEPT !.pc[w] = "fsyncDir" ]
     \/ fsx' = Reject(fsx, w, "rename")
  /\ UNCHANGED notFsx

\* fsyncDir(directory): synced, silently unsupported (EINVAL, ENOTSUP, EPERM,
\* EISDIR), or failed
FsyncDir(w) ==
  /\ fsx.state = "used"
  /\ ~fsx.crashed
  /\ fsx.pc[w] = "fsyncDir"
  /\ \/ fsx' = [ SyncDirectory(fsx) EXCEPT !.pc[w] = "resolved" ]
     \/ fsx' = [ fsx EXCEPT !.pc[w] = "resolved" ]
     \/ fsx' = Reject(fsx, w, "fsyncDir")
  /\ UNCHANGED notFsx

\* the process of a call is interrupted between two steps, or inside the write
Interrupt(w) ==
  /\ fsx.state = "used"
  /\ ~fsx.crashed
  /\ fsx.pc[w] \in RunningPcs
  /\ \/ fsx' = [ fsx EXCEPT !.pc[w] = "interrupted" ]
     \/ /\ fsx.pc[w] = "write"
        /\ fsx' = [ fsx EXCEPT !.pc[w] = "interrupted", !.data[w] = "partial" ]
  /\ UNCHANGED notFsx

\* the system writes back cached data or directory entries on its own
WriteBack ==
  /\ fsx.state = "used"
  /\ ~fsx.crashed
  /\ \/ \E w \in Writers :
          /\ fsx.ddata[w] # fsx.data[w]
          /\ fsx' = [ fsx EXCEPT !.ddata[w] = fsx.data[w] ]
     \/ /\ fsx.ddir # fsx.dir
        /\ fsx' = SyncDirectory(fsx)
  /\ UNCHANGED notFsx

\* power loss: only the durable state survives, every running call is gone
PowerLoss ==
  /\ fsx.state = "used"
  /\ ~fsx.crashed
  /\ fsx' = [ fsx EXCEPT !.crashed = TRUE,
                         !.dir = fsx.ddir,
                         !.data = fsx.ddata,
                         !.pc = [ w \in Writers |-> IF fsx.pc[w] \in RunningPcs
                                                    THEN "interrupted" ELSE fsx.pc[w] ] ]
  /\ UNCHANGED notFsx

InitFsx ==
  /\ MergeIdle
  /\ scan = ScanIdle
  /\ cli = CliIdle
  /\ det = DetIdle
  /\ s4tk = S4tkIdle
  /\ \E orig \in {"none", "old"} : \E stale \in SUBSET TempNames :
       \E active \in (SUBSET Writers) \ {{}} :
         fsx = FsxStart(orig, stale, active)

NextFsx ==
  \/ \E w \in Writers : CreateTempFile(w)
  \/ \E w \in Writers : OpenTemp(w)
  \/ \E w \in Writers : WriteTemp(w)
  \/ \E w \in Writers : SyncTemp(w)
  \/ \E w \in Writers : Cleanup(w)
  \/ \E w \in Writers : RenameTemp(w)
  \/ \E w \in Writers : FsyncDir(w)
  \/ \E w \in Writers : Interrupt(w)
  \/ WriteBack
  \/ PowerLoss

SpecFsx == InitFsx /\ [][NextFsx]_vars

\* what a reader finds at the target: the inode and its data
TargetHolds(d, f) ==
  IF d["target"] = "none" THEN << "none", "none" >> ELSE << d["target"], f[d["target"]] >>

\* the target as it was before any call, and the complete content of writer w
Untouched == IF fsx.orig = "none" THEN << "none", "none" >> ELSE << "old", "full" >>
CompleteOf(w) == << w, "full" >>

\* the temp files created by writer w that are in the directory
TempsOf(w) == { n \in TempNames : fsx.dir[n] = w }

\* ------------------------------------------------------- strings and paths
\* A string is a sequence of characters, a character is a token.  The alphabet
\* holds the characters the path functions treat specially, letters in both
\* cases, and one letter with its decomposed form ("e" followed by the
\* combining "acute") and its composed form ("e_acute").
CodePoint(ch) ==
  CASE ch = "." -> 46
    [] ch = "/" -> 47
    [] ch = ":" -> 58
    [] ch = "?" -> 63
    [] ch = "A" -> 65
    [] ch = "B" -> 66
    [] ch = "C" -> 67
    [] ch = "E" -> 69
    [] ch = "N" -> 78
    [] ch = "U" -> 85
    [] ch = "X" -> 88
    [] ch = "\\" -> 92
    [] ch = "a" -> 97
    [] ch = "b" -> 98
    [] ch = "c" -> 99
    [] ch = "e" -> 101
    [] ch = "x" -> 120
    [] ch = "E_acute" -> 201
    [] ch = "e_acute" -> 233
    [] ch = "acute" -> 769

\* String.prototype.toLowerCase / toUpperCase, one character
ToLowerCase(ch) ==
  CASE ch = "A" -> "a"
    [] ch = "B" -> "b"
    [] ch = "C" -> "c"
    [] ch = "E" -> "e"
    [] ch = "N" -> "n"
    [] ch = "U" -> "u"
    [] ch = "X" -> "x"
    [] ch = "E_acute" -> "e_acute"
    [] OTHER -> ch

ToUpperCase(ch) ==
  CASE ch = "a" -> "A"
    [] ch = "b" -> "B"
    [] ch = "c" -> "C"
    [] ch = "e" -> "E"
    [] ch = "x" -> "X"
    [] ch = "e_acute" -> "E_acute"
    [] OTHER -> ch

LowerCased(s) == [ i \in 1..Len(s) |-> ToLowerCase(s[i]) ]

\* the class [A-Za-z]
IsAsciiLetter(ch) ==
  ch \in {"A", "B", "C", "E", "N", "U", "X", "a", "b", "c", "e", "x"}

\* String.prototype.normalize('NFC')
RECURSIVE Nfc(_)
Nfc(s) ==
  IF Len(s) < 2 THEN s
  ELSE IF s[2] = "acute" /\ s[1] = "e" THEN << "e_acute" >> \o Nfc(Tail(Tail(s)))
  ELSE IF s[2] = "acute" /\ s[1] = "E" THEN << "E_acute" >> \o Nfc(Tail(Tail(s)))
  ELSE << s[1] >> \o Nfc(Tail(s))

StartsWith(s, prefix) ==
  Len(s) >= Len(prefix) /\ SubSeq(s, 1, Len(prefix)) = prefix

\* String.prototype.slice(n)
Slice(s, n) == SubSeq(s, n + 1, Len(s))

\* String.prototype.split(sep)
RECURSIVE Split(_, _)
Split(s, sep) ==
  LET at == { i \in 1..Len(s) : s[i] = sep }
  IN  IF at = {} THEN << s >>
      ELSE << SubSeq(s, 1, Min(at) - 1) >> \o Split(Slice(s, Min(at)), sep)

\* Array.prototype.join(sep)
RECURSIVE Join(_, _)
Join(segments, sep) ==
  IF segments = <<>> THEN <<>>
  ELSE IF Len(segments) = 1 THEN segments[1]
  ELSE segments[1] \o << sep >> \o Join(Tail(segments), sep)

\* replace(/^\/+/, '')
RECURSIVE StripLeadingSlashes(_)
StripLeadingSlashes(s) ==
  IF s # <<>> /\ s[1] = "/" THEN StripLeadingSlashes(Tail(s)) ELSE s

RECURSIVE StripTrailingSlashes(_)
StripTrailingSlashes(s) ==
  IF s # <<>> /\ s[Len(s)] = "/" THEN StripTrailingSlashes(SubSeq(s, 1, Len(s) - 1)) ELSE s

\* path.basename of node:path (POSIX)
Basename(path) ==
  LET pieces == Split(StripTrailingSlashes(path), "/")
  IN  pieces[Len(pieces)]

NormalizeUnicodeAndSlashes(path) ==
  LET n == Nfc(path)
  IN  [ i \in 1..Len(n) |-> IF n[i] = "\\" THEN "/" ELSE n[i] ]

StripExtendedLengthPrefix(path) ==
  LET normalized == NormalizeUnicodeAndSlashes(path)
  IN  IF ~StartsWith(normalized, << "/", "/", "?", "/" >>) THEN normalized
      ELSE IF StartsWith(normalized, << "/", "/", "?", "/", "U", "N", "C", "/" >>)
           THEN << "/", "/" >> \o Slice(normalized, 8)
      ELSE Slice(normalized, 4)

AnalyzePathPrefix(path) ==
  LET isUnc == StartsWith(path, << "/", "/" >>) /\ Len(path) > 2 /\ path[3] # "/"
      hasLeadingSlash == ~isUnc /\ StartsWith(path, << "/" >>)
      afterSlash == IF isUnc THEN Slice(path, 2)
                    ELSE IF hasLeadingSlash THEN StripLeadingSlashes(path)
                    ELSE path
      driveMatch == ~isUnc /\ Len(afterSlash) >= 2
                      /\ IsAsciiLetter(afterSlash[1]) /\ afterSlash[2] = ":"
      drive == IF driveMatch THEN << ToUpperCase(afterSlash[1]), ":" >> ELSE <<>>
      afterDrive == IF driveMatch THEN Slice(afterSlash, 2) ELSE afterSlash
      driveIsAbsolute == driveMatch /\ StartsWith(afterDrive, << "/" >>)
  IN  [ isUnc |-> isUnc,
        hasLeadingSlash |-> hasLeadingSlash,
        drive |-> drive,
        driveIsAbsolute |-> driveIsAbsolute,
        remainder |-> IF driveIsAbsolute THEN StripLeadingSlashes(afterDrive) ELSE afterDrive ]

DotDot == << ".", "." >>

RECURSIVE ResolveSegments(_, _, _)
ResolveSegments(rawSegments, segments, allowRelativeAboveRoot) ==
  IF rawSegments = <<>> THEN segments
  ELSE LET rawSegment == Head(rawSegments)
           rest == Tail(rawSegments)
       IN  IF rawSegment = <<>> \/ rawSegment = << "." >>
           THEN ResolveSegments(rest, segments, allowRelativeAboveRoot)
           ELSE IF rawSegment = DotDot
           THEN IF Len(segments) > 0 /\ segments[Len(segments)] # DotDot
                THEN ResolveSegments(rest, SubSeq(segments, 1, Len(segments) - 1),
                                     allowRelativeAboveRoot)
                ELSE IF ~allowRelativeAboveRoot
                THEN ResolveSegments(rest, segments, allowRelativeAboveRoot)
                ELSE ResolveSegments(rest, Append(segments, DotDot), allowRelativeAboveRoot)
           ELSE ResolveSegments(rest, Append(segments, rawSegment), allowRelativeAboveRoot)

ResolvePathSegments(path, allowRelativeAboveRoot) ==
  ResolveSegments(Split(NormalizeUnicodeAndSlashes(path), "/"), <<>>, allowRelativeAboveRoot)

RebuildNormalizedPath(prefix, segments) ==
  IF prefix.isUnc
  THEN << "/", "/" >> \o Join(segments, "/")
  ELSE IF prefix.drive # <<>>
  THEN IF prefix.driveIsAbsolute
       THEN prefix.drive \o << "/" >> \o Join(segments, "/")
       ELSE prefix.drive \o Join(segments, "/")
  ELSE IF prefix.hasLeadingSlash
  THEN << "/" >> \o Join(segments, "/")
  ELSE IF segments = <<>> THEN << "." >>
  ELSE Join(segments, "/")

NormalizePath(inputPath) ==
  IF inputPath = <<>> THEN << "." >>
  ELSE LET normalized == StripExtendedLengthPrefix(inputPath)
           prefix == AnalyzePathPrefix(normalized)
           segments == ResolvePathSegments(
                         prefix.remainder,
                         ~(prefix.isUnc \/ prefix.hasLeadingSlash \/ prefix.driveIsAbsolute))
       IN  RebuildNormalizedPath(prefix, segments)

\* the class [A-Z] of splitPathComponents
IsUpperAsciiLetter(ch) == ch \in {"A", "B", "C", "E", "N", "U", "X"}

SplitPathComponents(path) ==
  IF StartsWith(path, << "/", "/" >>)
  THEN IF Len(path) = 2 THEN << << "/", "/" >> >>
       ELSE << << "/", "/" >> >> \o Split(Slice(path, 2), "/")
  ELSE IF Len(path) >= 2 /\ IsUpperAsciiLetter(path[1]) /\ path[2] = ":"
  THEN LET drive == SubSeq(path, 1, 2)
           remainder == Slice(path, 2)
       IN  IF StartsWith(remainder, << "/" >>)
           THEN IF Len(remainder) = 1 THEN << drive, << "/" >> >>
                ELSE << drive, << "/" >> >> \o Split(Slice(remainder, 1), "/")
           ELSE IF remainder = <<>> THEN << drive >>
           ELSE << drive >> \o Split(remainder, "/")
  ELSE IF StartsWith(path, << "/" >>)
  THEN IF Len(path) = 1 THEN << << "/" >> >>
       ELSE << << "/" >> >> \o Split(Slice(path, 1), "/")
  ELSE Split(path, "/")

\* ------------------------------------------------------------ comparisons
CodePoints(s) == [ i \in 1..Len(s) |-> CodePoint(s[i]) ]

RECURSIVE Encoded(_)
Encoded(s) ==
  IF s = <<>> THEN <<>>
  ELSE LET codePoint == CodePoint(Head(s))
           asciiPriority == IF codePoint <= ASCII_PRIORITY_LIMIT THEN 0 ELSE 1
           folded == Nfc(<< ToLowerCase(Head(s)) >>)
       IN  << asciiPriority >> \o CodePoints(folded) \o << codePoint >> \o Encoded(Tail(s))

BuildSortKey(raw) ==
  LET normalized == Nfc(raw)
  IN  [ encoded |-> Encoded(normalized), normalizedCodePoints |-> CodePoints(normalized) ]

\* the first non-zero difference over the common length, or 0
FirstDelta(left, right) ==
  LET length == IF Len(left) < Len(right) THEN Len(left) ELSE Len(right)
      differing == { i \in 1..length : left[i] # right[i] }
  IN  IF differing = {} THEN 0 ELSE left[Min(differing)] - right[Min(differing)]

\* "if (delta !== 0) return delta;" followed by the rest of the comparison
OrElse(delta, rest) == IF delta # 0 THEN delta ELSE rest

CompareCodePoints(left, right) ==
  OrElse(FirstDelta(left, right), Len(left) - Len(right))

CompareSortKeys(leftKey, rightKey) ==
  OrElse(FirstDelta(leftKey.encoded, rightKey.encoded),
         OrElse(Len(leftKey.normalizedCodePoints) - Len(rightKey.normalizedCodePoints),
                CompareCodePoints(leftKey.normalizedCodePoints,
                                  rightKey.normalizedCodePoints)))

StableCompare(left, right) ==
  IF left = right THEN 0 ELSE CompareSortKeys(BuildSortKey(left), BuildSortKey(right))

RECURSIVE ComponentsDelta(_, _)
ComponentsDelta(leftParts, rightParts) ==
  IF leftParts = <<>> \/ rightParts = <<>> THEN 0
  ELSE OrElse(StableCompare(Head(leftParts), Head(rightParts)),
              ComponentsDelta(Tail(leftParts), Tail(rightParts)))

CompareComponents(leftParts, rightParts) ==
  OrElse(ComponentsDelta(leftParts, rightParts), Len(leftParts) - Len(rightParts))

CompareNormalized(leftNormalized, rightNormalized) ==
  IF leftNormalized = rightNormalized THEN 0
  ELSE CompareComponents(SplitPathComponents(leftNormalized),
                         SplitPathComponents(rightNormalized))

StablePathCompare(left, right) ==
  CompareNormalized(NormalizePath(left), NormalizePath(right))

\* ---------------------------------------------------------------- scanner
\* the paths the scanner is run on
PathPool ==
  { << "/", "a" >>,
    << "/", "B" >>,
    << "/", "b" >>,
    << "/", "x", "/", "a" >>,
    << "/", ".", "/", "a" >>,
    << ".", "/", "c", ":" >>,
    << "C", ":" >>,
    << "/", "e", "acute" >>,
    << "/", "e_acute" >> }

SortOptions == {"name", "path", "mtime"}

\* the PackageInfo scanInputs builds for a path from its stats
PackageInfo(path, stats) ==
  [ path |-> path,
    normalizedPath |-> NormalizePath(path),
    name |-> Basename(path),
    size |-> stats.size,
    mtime |-> stats.mtime ]

\* the comparators of sortPackages
PrimaryCompare(a, b, sortBy) ==
  CASE sortBy = "name" -> StableCompare(LowerCased(a.name), LowerCased(b.name))
    [] sortBy = "path" -> 0
    [] sortBy = "mtime" -> b.mtime - a.mtime

ComparePackages(a, b, sortBy) ==
  OrElse(PrimaryCompare(a, b, sortBy), StablePathCompare(a.normalizedPath, b.normalizedPath))

\* Array.prototype.sort is stable: an element goes behind every element that
\* does not compare greater than it
RECURSIVE InsertSorted(_, _, _)
InsertSorted(sorted, item, sortBy) ==
  IF sorted = <<>> THEN << item >>
  ELSE IF ComparePackages(sorted[Len(sorted)], item, sortBy) <= 0 THEN Append(sorted, item)
  ELSE Append(InsertSorted(SubSeq(sorted, 1, Len(sorted) - 1), item, sortBy),
              sorted[Len(sorted)])

RECURSIVE StableSort(_, _, _)
StableSort(items, sorted, sortBy) ==
  IF items = <<>> THEN sorted
  ELSE StableSort(Tail(items), InsertSorted(sorted, Head(items), sortBy), sortBy)

Reversed(s) == [ i \in 1..Len(s) |-> s[Len(s) + 1 - i] ]

SortPackages(packages, sortBy, reverse) ==
  LET sorted == IF sortBy \in SortOptions THEN StableSort(packages, <<>>, sortBy)
                ELSE packages
  IN  IF reverse THEN Reversed(sorted) ELSE sorted

RECURSIVE DedupFrom(_, _, _)
DedupFrom(paths, seen, unique) ==
  IF paths = <<>> THEN unique
  ELSE LET normalized == NormalizePath(Head(paths))
       IN  IF normalized \in seen THEN DedupFrom(Tail(paths), seen, unique)
           ELSE DedupFrom(Tail(paths), seen \cup {normalized}, Append(unique, Head(paths)))

DeduplicatePathsRaw(paths) ==
  LET firsts == { i \in 1..Len(paths) : \A j \in 1..(i - 1) : paths[j] # paths[i] }
  IN  Pick(paths, firsts, 1)
DeduplicatePaths(paths) == DedupFrom(paths, {}, <<>>)

\* path.resolve of node:path (POSIX), with "/" as the working directory
PosixResolve(path) ==
  << "/" >> \o Join(ResolveSegments(Split(path, "/"), <<>>, FALSE), "/")

\* the static file-system snapshots a scan runs against: what fs.stat says
\* about a path
Snapshots == {"same", "mixed", "broken"}

Stat(snapshot, path) ==
  LET last == IF path = <<>> THEN "/" ELSE path[Len(path)]
      file(mtime) == [ kind |-> "file", size |-> Len(path), mtime |-> mtime ]
  IN  CASE snapshot = "same" -> file(1)
        [] snapshot = "mixed" -> IF last \in {"a", "b"} THEN file(2) ELSE file(1)
        [] snapshot = "broken" ->
             IF last = "B" THEN [ kind |-> "directory", size |-> 0, mtime |-> 1 ]
             ELSE IF \E i \in 1..Len(path) : path[i] = "x"
             THEN [ kind |-> "missing", size |-> 0, mtime |-> 0 ]
             ELSE file(1)

BoundedSeqs(S, n) == UNION { [ 1..k -> S ] : k \in 0..n }

RECURSIVE SumSizes(_)
SumSizes(packages) ==
  IF packages = <<>> THEN 0 ELSE Head(packages).size + SumSizes(Tail(packages))

\* the messages scanInputs and expandFilesList push to errors, word by word
\* (each is followed by the path it is about and the cause)
FilesListFailure == << "Failed", "to", "process", "files", "list" >>
ListEntryMissing ==
  << "Path", "from", "file", "list", "does", "not", "exist", "or", "is", "not", "readable" >>
EnumerateFailure == << "Failed", "to", "enumerate", "directory" >>
StatFailure == << "Failed", "to", "stat", "file" >>

\* String.prototype.includes
Includes(text, needle) ==
  \E i \in 0..(Len(text) - Len(needle)) : SubSeq(text, i + 1, i + Len(needle)) = needle

\* the file named by options.filesList
FilesListPath == << "/", "l" >>

\* expandFilesList(filesList, errors): the lines that resolve to an accessible
\* path, and a message for every other line
ExpandFilesList(lines, snapshot) ==
  LET Accessible(line) == Stat(snapshot, PosixResolve(line)).kind # "missing"
      Missing(line) == ~Accessible(line)
      found == SelectSeq(lines, Accessible)
      lost == SelectSeq(lines, Missing)
  IN  [ paths |-> [ i \in 1..Len(found) |-> PosixResolve(found[i]) ],
        errors |-> [ i \in 1..Len(lost) |-> [ text |-> ListEntryMissing, path |-> lost[i] ] ] ]

\* the file-list block of scanInputs: a list that cannot be read makes
\* expandFilesList throw, which scanInputs catches
ProcessFilesList(s) ==
  IF s.listReadable THEN ExpandFilesList(s.filesList, s.snapshot)
  ELSE [ paths |-> <<>>, errors |-> << [ text |-> FilesListFailure, path |-> FilesListPath ] >> ]

\* enumerateDirectory(dirPath): the resolved paths of the entries, in the
\* order readdir returned them; scanDir catches a failing readdir and returns,
\* so a directory that cannot be read yields no path and nothing is thrown
EnumerateDirectory(entries, readable) ==
  [ paths |-> IF readable THEN [ i \in 1..Len(entries) |-> PosixResolve(entries[i]) ] ELSE <<>>,
    thrown |-> FALSE ]

\* the directory block of scanInputs: a message only if enumerateDirectory threw
ProcessDirectory(s) ==
  LET enumerated == EnumerateDirectory(s.dirPaths, s.dirReadable)
  IN  [ paths |-> enumerated.paths,
        errors |-> IF enumerated.thrown
                   THEN << [ text |-> EnumerateFailure, path |-> << "/" >> ] >>
                   ELSE <<>> ]

\* the stat loop of scanInputs over the deduplicated paths
CollectPackageInfo(uniquePaths, snapshot) ==
  LET IsFile(path) == Stat(snapshot, path).kind = "file"
      NotFile(path) == Stat(snapshot, path).kind # "file"
      StatFails(path) == Stat(snapshot, path).kind = "missing"
      files == SelectSeq(uniquePaths, IsFile)
      failed == SelectSeq(uniquePaths, StatFails)
  IN  [ packages |-> [ i \in 1..Len(files) |-> PackageInfo(files[i], Stat(snapshot, files[i])) ],
        skippedFiles |-> SelectSeq(uniquePaths, NotFile),
        errors |-> [ i \in 1..Len(failed) |-> [ text |-> StatFailure, path |-> failed[i] ] ] ]

\* the ScanResult scanInputs returns
ScanResult(sortedPackages, skippedFiles, errors) ==
  [ packages |-> sortedPackages,
    totalSize |-> SumSizes(sortedPackages),
    totalCount |-> Len(sortedPackages),
    skippedFiles |-> skippedFiles,
    errors |-> errors ]

SortCollected(s, collected, listErrors) ==
  ScanResult(SortPackages(collected.packages, s.sortBy, s.reverse),
             collected.skippedFiles,
             listErrors \o collected.errors)

ScanListed(s, list, directory) ==
  SortCollected(s,
                CollectPackageInfo(DeduplicatePaths(list.paths \o directory.paths), s.snapshot),
                list.errors \o directory.errors)

ScanInputs(s) == ScanListed(s, ProcessFilesList(s), ProcessDirectory(s))

NoCall == [ op |-> "none", args |-> <<>>, result |-> <<>> ]

ScanStart(filesList, listReadable, dirPaths, dirReadable, sortBy, reverse, snapshot) ==
  [ state |-> "used",
    filesList |-> filesList,
    listReadable |-> listReadable,
    dirPaths |-> dirPaths,
    dirReadable |-> dirReadable,
    sortBy |-> sortBy,
    reverse |-> reverse,
    snapshot |-> snapshot,
    call |-> NoCall ]

\* deduplicatePaths called on the given paths
DeduplicatePathsCall ==
  /\ scan.state = "used"
  /\ scan.call = NoCall
  /\ LET paths == scan.filesList \o scan.dirPaths
     IN  scan' = [ scan EXCEPT !.call = [ op |-> "deduplicatePaths",
                                          args |-> paths,
                                          result |-> DeduplicatePaths(paths) ] ]
  /\ UNCHANGED notScan

\* sortPackages called on the packages of the given paths
SortPackagesCall ==
  /\ scan.state = "used"
  /\ scan.call = NoCall
  /\ LET paths == scan.filesList \o scan.dirPaths
         packages == [ i \in 1..Len(paths) |-> PackageInfo(paths[i], Stat(scan.snapshot, paths[i])) ]
     IN  scan' = [ scan EXCEPT !.call = [ op |-> "sortPackages",
                                          args |-> packages,
                                          result |-> SortPackages(packages, scan.sortBy,
                                                                  scan.reverse) ] ]
  /\ UNCHANGED notScan

\* scanInputs called with the given options
ScanInputsCall ==
  /\ scan.state = "used"
  /\ scan.call = NoCall
  /\ scan' = [ scan EXCEPT !.call = [ op |-> "scanInputs",
                                      args |-> <<>>,
                                      result |-> ScanInputs(scan) ] ]
  /\ UNCHANGED notScan

InitScan ==
  /\ MergeIdle
  /\ fsx = FsxIdle
  /\ cli = CliIdle
  /\ det = DetIdle
  /\ s4tk = S4tkIdle
  /\ \E listReadable \in BOOLEAN : \E dirReadable \in BOOLEAN :
       \E filesList \in IF listReadable THEN BoundedSeqs(PathPool, MaxPaths) ELSE {<<>>} :
         \E dirPaths \in IF dirReadable THEN BoundedSeqs(PathPool, MaxPaths - Len(filesList))
                         ELSE {<<>>} :
           \E sortBy \in SortOptions : \E reverse \in BOOLEAN : \E snapshot \in Snapshots :
             scan = ScanStart(filesList, listReadable, dirPaths, dirReadable,
                              sortBy, reverse, snapshot)

NextScan ==
  \/ DeduplicatePathsCall
  \/ SortPackagesCall
  \/ ScanInputsCall

SpecScan == InitScan /\ [][NextScan]_vars

\* the rearrangements of a sequence
Rearrangements(s) ==
  { [ i \in 1..Len(s) |-> s[f[i]] ] :
      f \in { g \in [ 1..Len(s) -> 1..Len(s) ] : \A i, j \in 1..Len(s) : g[i] = g[j] => i = j } }

\* the position of the first occurrence of x in s
IndexOf(s, x) == Min({ i \in 1..Len(s) : s[i] = x })

Paths(packages) == [ i \in 1..Len(packages) |-> packages[i].path ]

\* ------------------------------------------------- determinism utilities
\* the pieces the path strings under test are put together from: separators,
\* dot segments, a drive, a name, the extended-length and UNC prefixes
PathPieces ==
  { << "/" >>, << "\\" >>, << "." >>, << ".", "." >>, << "c", ":" >>, << "a" >>,
    << "/", "/" >>, << "/", "/", "?", "/" >>, << "U", "N", "C", "/" >> }

PathStrings == { Flatten(pieces) : pieces \in BoundedSeqs(PathPieces, MaxPieces) }

\* normalizePath applied to the string at hand, whose result is the next string
NormalizePathCall ==
  /\ det.state = "paths"
  /\ Len(det.results) < 2
  /\ det' = [ det EXCEPT !.results = Append(@, NormalizePath(det.value)),
                         !.value = NormalizePath(det.value) ]
  /\ UNCHANGED notDet

InitNormalize ==
  /\ MergeIdle
  /\ fsx = FsxIdle
  /\ scan = ScanIdle
  /\ cli = CliIdle
  /\ s4tk = S4tkIdle
  /\ \E path \in PathStrings :
       det = [ state |-> "paths", input |-> path, value |-> path, results |-> <<>> ]

NextNormalize ==
  \/ NormalizePathCall

SpecNormalize == InitNormalize /\ [][NextNormalize]_vars

\* toSortKey of the second definition of stableCompare: no normalization, the
\* first code point of the lower-cased character
RECURSIVE ToSortKey(_)
ToSortKey(value) ==
  IF value = <<>> THEN <<>>
  ELSE LET codePoint == CodePoint(Head(value))
           lowerCodePoint == CodePoint(ToLowerCase(Head(value)))
           asciiPriority == IF codePoint <= ASCII_PRIORITY_LIMIT THEN 0 ELSE 1
       IN  << asciiPriority, lowerCodePoint, codePoint >> \o ToSortKey(Tail(value))

\* the second definition of stableCompare in util/determinism.ts
StableCompareByKey(left, right) ==
  IF left = right THEN 0
  ELSE OrElse(FirstDelta(ToSortKey(left), ToSortKey(right)), Len(left) - Len(right))

\* util/determinism.ts defines stableCompare twice; which one a build calls is
\* the build's choice
CompareRevisions == {"normalized", "plain"}
StableCompareIn(build, left, right) ==
  IF build = "normalized" THEN StableCompare(left, right) ELSE StableCompareByKey(left, right)

\* the comparator of stableSortBy: the keys, then the original index
SortByDelta(left, right, build) ==
  OrElse(StableCompareIn(build, left.key, right.key), left.index - right.index)

RECURSIVE InsertByKey(_, _, _)
InsertByKey(sorted, entry, build) ==
  IF sorted = <<>> THEN << entry >>
  ELSE IF SortByDelta(sorted[Len(sorted)], entry, build) <= 0 THEN Append(sorted, entry)
  ELSE Append(InsertByKey(SubSeq(sorted, 1, Len(sorted) - 1), entry, build),
              sorted[Len(sorted)])

RECURSIVE SortEntries(_, _, _)
SortEntries(entries, sorted, build) ==
  IF entries = <<>> THEN sorted
  ELSE SortEntries(Tail(entries), InsertByKey(sorted, Head(entries), build), build)

\* stableSortBy(items, item => item): map to entries, sort, map back
StableSortBy(items, build) ==
  LET entries == [ i \in 1..Len(items) |-> [ item |-> items[i], index |-> i, key |-> items[i] ] ]
      sorted == SortEntries(entries, <<>>, build)
  IN  [ i \in 1..Len(sorted) |-> sorted[i].item ]

\* the strings compared: cases, composed and decomposed accents, prefixes
KeyPool ==
  { <<>>, << "a" >>, << "e" >>, << "E" >>, << "e_acute" >>, << "e", "acute" >>,
    << "E_acute" >>, << "E", "acute" >>, << "e", "a" >>, << "a", "x" >> }

\* stableCompare on every pair of the strings at hand
StableCompareCall ==
  /\ det.state = "keys"
  /\ ~det.compared
  /\ det' = [ det EXCEPT !.compared = TRUE,
                         !.deltas = [ i \in 1..Len(det.items) |->
                                      [ j \in 1..Len(det.items) |->
                                        StableCompareIn(det.revision, det.items[i],
                                                        det.items[j]) ] ] ]
  /\ UNCHANGED notDet

\* stableSortBy on every arrangement of the strings at hand
StableSortByCall ==
  /\ det.state = "keys"
  /\ det.sorted = {}
  /\ det' = [ det EXCEPT !.sorted = { [ given |-> arrangement,
                                        result |-> StableSortBy(arrangement, det.revision) ] :
                                      arrangement \in Rearrangements(det.items) } ]
  /\ UNCHANGED notDet

InitCompare ==
  /\ MergeIdle
  /\ fsx = FsxIdle
  /\ scan = ScanIdle
  /\ cli = CliIdle
  /\ s4tk = S4tkIdle
  /\ \E items \in BoundedSeqs(KeyPool, MaxKeys) : \E build \in CompareRevisions :
       det = [ state |-> "keys", items |-> items, revision |-> build, compared |-> FALSE,
               deltas |-> <<>>, sorted |-> {} ]

NextCompare ==
  \/ StableCompareCall
  \/ StableSortByCall

SpecCompare == InitCompare /\ [][NextCompare]_vars

\* ------------------------------------------------------------ command line
\* An optional argument is the empty sequence when the flag is absent and a
\* one-element sequence holding its value otherwise; a value may be the empty
\* string (--out ''). Truthy is JavaScript's truthiness of such an option.
Absent == <<>>
Truthy(option) == option # Absent /\ option[1] # ""

\* numbers as parseFloat returns them: NaN, or a decimal kept in tenths
NaN == [ nan |-> TRUE, tenths |-> 0 ]
Number(tenths) == [ nan |-> FALSE, tenths |-> tenths ]
DigitChars == << "0", "1", "2", "3", "4", "5", "6", "7", "8", "9" >>
IsDigit(c) == \E i \in 1..Len(DigitChars) : DigitChars[i] = c
DigitValue(c) == (CHOOSE i \in 1..Len(DigitChars) : DigitChars[i] = c) - 1

\* the number of digits of s from position i on
RECURSIVE DigitRun(_, _)
DigitRun(s, i) ==
  IF i <= Len(s) /\ IsDigit(s[i]) THEN 1 + DigitRun(s, i + 1) ELSE 0

RECURSIVE DigitsValue(_)
DigitsValue(digits) ==
  IF digits = <<>> THEN 0
  ELSE 10 * DigitsValue(SubSeq(digits, 1, Len(digits) - 1)) + DigitValue(digits[Len(digits)])

RECURSIVE TrimStart(_)
TrimStart(s) == IF s # <<>> /\ s[1] = " " THEN TrimStart(Tail(s)) ELSE s

\* parseFloat: the longest prefix of the trimmed argument that is a decimal
\* literal (sign, digits, fraction), NaN when there is none. The arguments
\* drawn have at most one fraction digit and no exponent.
ParseFloat(arg) ==
  LET s == TrimStart(arg)
      signed == s # <<>> /\ s[1] \in {"+", "-"}
      body == IF signed THEN Tail(s) ELSE s
      whole == DigitRun(body, 1)
      dotted == whole < Len(body) /\ body[whole + 1] = "."
      fraction == IF dotted THEN DigitRun(body, whole + 2) ELSE 0
      magnitude == 10 * DigitsValue(SubSeq(body, 1, whole))
                   + (IF fraction > 0 THEN DigitValue(body[whole + 2]) ELSE 0)
  IN  IF whole + fraction = 0 THEN NaN
      ELSE Number(IF signed /\ s[1] = "-" THEN 0 - magnitude ELSE magnitude)

\* n <= 0 in JavaScript: false for NaN
LessOrEqualZero(n) == ~n.nan /\ n.tenths <= 0

\* the messages validateBasicOptions throws
InputRequired == "Input required: specify at least one --in <dir> or --files <path>."
OutRootWithoutByFolder == "Input error: --out-root <dir> can only be used with --by-folder."
OutputRequired == "Output required: specify either --out <path> or --by-folder."
OutputConflict == "Output conflict: --out <path> and --by-folder are mutually exclusive."
OutRootRequired == "Output required: --by-folder also requires --out-root <dir>."
MaxSizeNotPositive == "Validation error: --max-size must be a positive number."
ValidationErrors == { InputRequired, OutRootWithoutByFolder, OutputRequired, OutputConflict,
                      OutRootRequired, MaxSizeNotPositive }

\* validateBasicOptions without its check of --out together with --by-folder
ValidateBasicOptionsNoConflict(o) ==
  IF Len(o.in) = 0 /\ ~Truthy(o.files) THEN InputRequired
  ELSE IF Truthy(o.outRoot) /\ ~o.byFolder THEN OutRootWithoutByFolder
  ELSE IF ~Truthy(o.out) /\ ~o.byFolder THEN OutputRequired
  ELSE IF o.byFolder /\ ~Truthy(o.outRoot) THEN OutRootRequired
  ELSE IF o.maxSize # Absent /\ LessOrEqualZero(o.maxSize[1]) THEN MaxSizeNotPositive
  ELSE "none"

\* validateBasicOptions: the message it throws, "none" when it returns
ValidateBasicOptions(o) ==
  IF Len(o.in) = 0 /\ ~Truthy(o.files) THEN InputRequired
  ELSE IF Truthy(o.outRoot) /\ ~o.byFolder THEN OutRootWithoutByFolder
  ELSE IF ~Truthy(o.out) /\ ~o.byFolder THEN OutputRequired
  ELSE IF Truthy(o.out) /\ o.byFolder THEN OutputConflict
  ELSE IF o.byFolder /\ ~Truthy(o.outRoot) THEN OutRootRequired
  ELSE IF o.maxSize # Absent /\ LessOrEqualZero(o.maxSize[1]) THEN MaxSizeNotPositive
  ELSE "none"

\* the two revisions of runBasic: the placeholder of basic/main.ts and the orchestrator
RunBasicRevisions == {"placeholder", "orchestrator"}
WritingSteps == { "mergeAll", "verifyOutputs", "writeManifests", "writeRunChangelog",
                  "writeStatsJson" }
When(condition, step) == IF condition THEN << step >> ELSE <<>>

\* the steps after the plan, in the order the orchestrator awaits them
EmitSteps(o) ==
  << "mergeAll" >> \o When(o.verify, "verifyOutputs") \o << "writeManifests" >>
    \o When(o.changelog # FALSE, "writeRunChangelog")
    \o When(Truthy(o.statsJson), "writeStatsJson")

\* the orchestrator without its early return on dryRun
RunBasicNoDryRun(o, build) ==
  IF build = "placeholder" THEN [ calls |-> <<>>, code |-> 0 ]
  ELSE [ calls |-> << "scanInputs", "planMerge" >> \o EmitSteps(o), code |-> 0 ]

\* runBasic: the steps it invokes, in order, and the code it resolves to
RunBasic(o, build) ==
  IF build = "placeholder" THEN [ calls |-> <<>>, code |-> 0 ]
  ELSE IF o.dryRun THEN [ calls |-> << "scanInputs", "planMerge" >>, code |-> 0 ]
  ELSE [ calls |-> << "scanInputs", "planMerge" >> \o EmitSteps(o), code |-> 0 ]

\* the option values Commander holds before it has read the arguments
DefaultOptions ==
  [ in |-> <<>>, files |-> Absent, out |-> Absent, byFolder |-> FALSE, outRoot |-> Absent,
    maxSize |-> Absent, changelog |-> TRUE, statsJson |-> Absent, verify |-> FALSE,
    dryRun |-> FALSE ]

\* the options Commander hands to the action: --max-size goes through parseFloat
ParseOptions(args) ==
  [ in |-> args.in, files |-> args.files, out |-> args.out, byFolder |-> args.byFolder,
    outRoot |-> args.outRoot,
    maxSize |-> IF args.maxSize = Absent THEN Absent ELSE << ParseFloat(args.maxSize[1]) >>,
    changelog |-> ~args.noChangelog, statsJson |-> args.statsJson, verify |-> args.verify,
    dryRun |-> args.dryRun ]

OptionalPaths == { Absent, << "" >>, << "p" >> }
MaxSizeArguments ==
  { << "1", "0", "0" >>, << "-", "1", "0", "0" >>, << "0" >>, << "-", "0" >>,
    << "0", ".", "5" >>, << " ", "2" >>, << "a", "b", "c" >>, << "1", "0", "M", "B" >>, <<>> }

ArgumentSets ==
  [ in : { <<>>, << "dir" >> }, files : OptionalPaths, out : OptionalPaths,
    byFolder : BOOLEAN, outRoot : OptionalPaths,
    maxSize : { Absent } \cup { << a >> : a \in MaxSizeArguments },
    noChangelog : BOOLEAN, statsJson : { Absent, << "p" >> }, verify : BOOLEAN,
    dryRun : BOOLEAN ]

CliStart(args, build) ==
  [ state |-> "arguments", args |-> args, revision |-> build, options |-> DefaultOptions,
    error |-> "none", exitCode |-> 0, invoked |-> FALSE, calls |-> <<>> ]

\* Commander reads the arguments of 'basic'
ParseArguments ==
  /\ cli.state = "arguments"
  /\ cli' = [ cli EXCEPT !.state = "parsed", !.options = ParseOptions(cli.args) ]
  /\ UNCHANGED notCli

\* the action handler: validate, then await runBasic; a thrown Error goes to
\* program.error, which exits with code 1
BasicAction ==
  /\ cli.state = "parsed"
  /\ LET thrown == ValidateBasicOptions(cli.options)
         ran == RunBasic(cli.options, cli.revision)
     IN  cli' = IF thrown # "none"
                THEN [ cli EXCEPT !.state = "done", !.error = thrown, !.exitCode = 1 ]
                ELSE [ cli EXCEPT !.state = "done", !.invoked = TRUE, !.calls = ran.calls,
                                  !.exitCode = ran.code ]
  /\ UNCHANGED notCli

InitCli ==
  /\ MergeIdle
  /\ fsx = FsxIdle
  /\ scan = ScanIdle
  /\ det = DetIdle
  /\ s4tk = S4tkIdle
  /\ \E args \in ArgumentSets : \E build \in RunBasicRevisions :
       cli = CliStart(args, build)

NextCli ==
  \/ ParseArguments
  \/ BasicAction

SpecCli == InitCli /\ [][NextCli]_vars

\* ---------------------------------------------------------- adapter loaders
\* what reading and parsing one input file comes to
FileConditions == { "package", "ENOENT", "EACCES", "not a package" }
LoaderPaths == { "a.package", "b.package", "c.package" }

NoCause == [ code |-> "none", text |-> "none", path |-> Absent ]

\* the error fs.readFile or S4TKPackage.from throws for a file: Node's
\* file-system errors carry the path, the parser's error does not
ReadError(path, condition) ==
  IF condition = "not a package"
  THEN [ code |-> "none", text |-> "Not a package file", path |-> Absent ]
  ELSE [ code |-> condition, text |-> condition, path |-> << path >> ]

\* new S4TKError(message, filePath, cause): the path is appended to the message
\* when one is given
S4TKError(name, text, filePath, cause) ==
  [ name |-> name, text |-> text, filePath |-> filePath, inMessage |-> filePath,
    cause |-> cause ]
PackageLoadError(path, cause) ==
  S4TKError("PackageLoadError", "Failed to load package file", << path >>, cause)
PackageCorruptionError(path, cause) ==
  S4TKError("PackageCorruptionError", "Package file appears to be corrupted", << path >>, cause)

Loaded(paths) == [ ok |-> TRUE, loaded |-> paths, error |-> S4TKError("none", "none", Absent, NoCause) ]
Thrown(e) == [ ok |-> FALSE, loaded |-> <<>>, error |-> e ]

\* loadPackage(filePath)
LoadPackageFile(path, condition) ==
  IF condition = "package" THEN Loaded(<< path >>)
  ELSE IF condition = "not a package"
       THEN Thrown(PackageCorruptionError(path, ReadError(path, condition)))
  ELSE IF condition = "ENOENT"
       THEN Thrown(PackageLoadError(path, [ code |-> "none", text |-> "File not found",
                                             path |-> Absent ]))
  ELSE Thrown(PackageLoadError(path, ReadError(path, condition)))

\* the first file of the list that cannot be read or parsed, 0 if there is none
FirstUnreadable(files) ==
  LET bad == { i \in 1..Len(files) : files[i].condition # "package" }
  IN  IF bad = {} THEN 0 ELSE CHOOSE i \in bad : \A j \in bad : i <= j

\* mergePackages(filePaths): the files are read in order; whatever is thrown is
\* wrapped without a path
MergePackages(files) ==
  LET bad == FirstUnreadable(files)
  IN  IF bad = 0 THEN Loaded([ i \in 1..Len(files) |-> files[i].path ])
      ELSE Thrown(S4TKError("S4TKError", "Failed to merge packages", Absent,
                            ReadError(files[bad].path, files[bad].condition)))

S4tkStart(files) ==
  [ state |-> "idle", files |-> files, op |-> "none", index |-> 0, result |-> Loaded(<<>>) ]

LoadPackageCall ==
  /\ s4tk.state = "idle"
  /\ \E i \in 1..Len(s4tk.files) :
       s4tk' = [ s4tk EXCEPT !.state = "used", !.op = "loadPackage", !.index = i,
                             !.result = LoadPackageFile(s4tk.files[i].path,
                                                        s4tk.files[i].condition) ]
  /\ UNCHANGED notS4tk

MergePackagesCall ==
  /\ s4tk.state = "idle"
  /\ s4tk' = [ s4tk EXCEPT !.state = "used", !.op = "mergePackages",
                           !.index = FirstUnreadable(s4tk.files),
                           !.result = MergePackages(s4tk.files) ]
  /\ UNCHANGED notS4tk

InitS4tk ==
  /\ MergeIdle
  /\ fsx = FsxIdle
  /\ scan = ScanIdle
  /\ cli = CliIdle
  /\ det = DetIdle
  /\ \E files \in BoundedSeqs([ path : LoaderPaths, condition : FileConditions ], MaxLoaded) :
       s4tk = S4tkStart(files)

NextS4tk ==
  \/ LoadPackageCall
  \/ MergePackagesCall

SpecS4tk == InitS4tk /\ [][NextS4tk]_vars

\* ------------------------------------------------------- views of the output
\* the records of part p that precede its trailing metadata record
NonMeta(part) == SubSeq(part.records, 1, Len(part.records) - 1)

\* the descriptors embedded in a part's metadata record
Descs(part) == DecodeMetadata(part.metadataRecord.value).originalPackages

\* keys and payload bytes of a part's records, in order
RecordOrder(part) ==
  [ j \in 1..Len(NonMeta(part)) |->
      [key |-> NonMeta(part)[j].key, value |-> NonMeta(part)[j].value] ]

EstimateOf(n) == n * BytesPerResource

\* ------------------------------------------------------------------ claims

\* C1: mergeGroup is deterministic: a second run on the same ordered inputs
\* with the same options returns the same number of parts, the same record
\* order in every part and identical metadata payloads, and the embedded
\* metadata holds no wall-clock timestamp.
C1_Deterministic ==
  (run = "second" /\ status = "done") =>
    /\ Len(parts) = Len(first)
    /\ \A p \in 1..Len(parts) :
         /\ RecordOrder(parts[p]) = RecordOrder(first[p])
         /\ parts[p].metadataRecord.value = first[p].metadataRecord.value
         /\ "mergeTimestamp" \notin DOMAIN DecodeMetadata(parts[p].metadataRecord.value)

\* C2: an input is never split across two parts: every record of the output
\* lies in the part its input was placed in, and the inputs of the parts,
\* concatenated in part order (then the part under construction), are the
\* frozen input list in its order, complete once the run is done.
C2_NeverSplit ==
  (status \in {"running", "done"}) =>
    /\ Flatten([p \in 1..Len(parts) |-> parts[p].placed]) \o cur.placed
         = [i \in 1..(next - 1) |-> i]
    /\ \A p \in 1..Len(parts) : \A j \in 1..Len(NonMeta(parts[p])) :
         NonMeta(parts[p])[j].src \in Range(parts[p].placed)
    /\ \A j \in 1..Len(cur.pkg.entries) : cur.pkg.entries[j].src \in Range(cur.placed)
    /\ (status = "done" => next = Len(inputs) + 1 /\ cur.placed = <<>>)

C2_Witness ==
  /\ status = "done"
  /\ Len(parts) = 2
  /\ Len(parts[1].placed) = 2
  /\ \E j \in 1..Len(NonMeta(parts[1])) : NonMeta(parts[1])[j].src = 1
  /\ \E j \in 1..Len(NonMeta(parts[1])) : NonMeta(parts[1])[j].src = 2
  /\ \E j \in 1..Len(NonMeta(parts[2])) : NonMeta(parts[2])[j].src = 3

\* C3: rollover happens exactly at the size boundary: appending an input
\* finalizes the current part and starts a new one exactly when a cap is
\* configured and the part's running estimate plus the input's estimate exceeds
\* it; the finalized part is the whole current part and the input starts the
\* new one.  A(3), B(2), C(4) with a cap that A+B just fit give {A,B} and {C};
\* without a cap exactly one part is returned.
C3_Crosses ==
  /\ options.maxPartSizeBytes > 0
  /\ EstimateOf(Len(cur.pkg.entries)) + EstimateOf(Len(inputs[next])) > options.maxPartSizeBytes

C3_RolloverBoundary ==
  /\ [](status = "done" /\ options.maxPartSizeBytes = 0 => Len(parts) = 1)
  /\ []( ( /\ status = "done"
           /\ inputs = ScenarioInputs
           /\ options.maxPartSizeBytes = EstimateOf(5) )
         => ( /\ Len(parts) = 2
              /\ parts[1].placed = <<1, 2>>
              /\ parts[2].placed = <<3>> ) )
  /\ [][ (status = "running" /\ next' = next + 1) =>
           IF C3_Crosses
           THEN /\ Len(parts') = Len(parts) + 1
                /\ SubSeq(parts', 1, Len(parts)) = parts
                /\ parts'[Len(parts')].placed = cur.placed
                /\ NonMeta(parts'[Len(parts')]) = cur.pkg.entries
                /\ cur'.placed = <<next>>
           ELSE /\ parts' = parts
                /\ cur'.placed = Append(cur.placed, next) ]_vars

C3_Witness ==
  /\ status = "done"
  /\ Len(inputs) = 3
  /\ \A i \in 1..3 : Len(inputs[i]) > 0
  /\ options.maxPartSizeBytes > 0
  /\ EstimateOf(Len(inputs[1]) + Len(inputs[2])) <= options.maxPartSizeBytes
  /\ Len(parts) = 2
  /\ parts[1].placed = <<1, 2>>
  /\ parts[2].placed = <<3>>
  /\ Len(NonMeta(parts[1])) = Len(inputs[1]) + Len(inputs[2])

\* ---------------------------------------------- inputs and descriptors, by key
Max(S) == CHOOSE x \in S : \A y \in S : y <= x

HasKey(i, k) == \E j \in 1..Len(inputs[i]) : inputs[i][j].key = k

\* the payload input i holds under key k
PayloadOf(i, k) == inputs[i][CHOOSE j \in 1..Len(inputs[i]) : inputs[i][j].key = k].payload

InputKeys == UNION { { inputs[i][j].key : j \in 1..Len(inputs[i]) } : i \in 1..Len(inputs) }

\* the inputs placed in part p that hold key k
InputsWithKey(p, k) == { i \in Range(parts[p].placed) : HasKey(i, k) }

\* positions of the records of part p stored under key k
RecordsAt(p, k) == { r \in 1..Len(NonMeta(parts[p])) : NonMeta(parts[p])[r].key = k }

\* the state the metadata of part p records for key k of input i
\* ("none" when no descriptor of the part lists it)
StateOf(p, i, k) ==
  LET D    == Descs(parts[p])
      hits == { << d, e >> \in (1..Len(D)) \X (1..9) :
                  /\ D[d].input = i
                  /\ e <= Len(D[d].entries)
                  /\ D[d].entries[e].key = k }
  IN  IF hits = {} THEN "none"
      ELSE LET h == CHOOSE x \in hits : TRUE IN D[h[1]].entries[h[2]].state

\* C7: no resource is dropped without being recorded: every descriptor has
\* resourceCount = keptCount + overwrittenCount, and every record of every
\* input is present (same key, same bytes) in an output part or listed as
\* overwritten in a descriptor, also when adding a single resource fails.
C7_NoSilentDrop ==
  (status = "done") =>
    /\ \A p \in 1..Len(parts) : \A d \in 1..Len(Descs(parts[p])) :
         Descs(parts[p])[d].resourceCount
           = Descs(parts[p])[d].keptCount + Descs(parts[p])[d].overwrittenCount
    /\ \A i \in 1..Len(inputs) : \A j \in 1..Len(inputs[i]) :
         \/ \E p \in 1..Len(parts) : \E r \in RecordsAt(p, inputs[i][j].key) :
              NonMeta(parts[p])[r].value = inputs[i][j].payload
         \/ \E p \in 1..Len(parts) : StateOf(p, i, inputs[i][j].key) = "overwritten"

\* C4: keep-last: when two inputs of a part share a key with different
\* payloads, the part holds exactly one record for the key, with the bytes of
\* the last input holding it; the earlier input's descriptor marks the key
\* overwritten and the last input's descriptor marks it kept.
C4_KeepLast ==
  (status = "done" /\ options.collisionPolicy = "keep-last") =>
    \A p \in 1..Len(parts) : \A k \in InputKeys :
      \A i, j \in InputsWithKey(p, k) :
        (i < j /\ PayloadOf(i, k) # PayloadOf(j, k)) =>
          LET last == Max(InputsWithKey(p, k))
          IN  /\ Cardinality(RecordsAt(p, k)) = 1
              /\ \A r \in RecordsAt(p, k) : NonMeta(parts[p])[r].value = PayloadOf(last, k)
              /\ StateOf(p, i, k) = "overwritten"
              /\ StateOf(p, last, k) = "kept"

\* C5: keep-first: when two inputs of a part share a key with different
\* payloads, the bytes of the first input holding the key stay in the part, its
\* descriptor keeps the key, and every later input holding other bytes under
\* the key has it marked overwritten in its own descriptor.
C5_KeepFirst ==
  (status = "done" /\ options.collisionPolicy = "keep-first") =>
    \A p \in 1..Len(parts) : \A k \in InputKeys :
      \A i, j \in InputsWithKey(p, k) :
        (i < j /\ PayloadOf(i, k) # PayloadOf(j, k)) =>
          LET fst == Min(InputsWithKey(p, k))
          IN  /\ Cardinality(RecordsAt(p, k)) = 1
              /\ \A r \in RecordsAt(p, k) : NonMeta(parts[p])[r].value = PayloadOf(fst, k)
              /\ StateOf(p, fst, k) = "kept"
              /\ \A m \in InputsWithKey(p, k) :
                   PayloadOf(m, k) # PayloadOf(fst, k) => StateOf(p, m, k) = "overwritten"

\* C6: deduplication under every collision policy: with deduplication enabled,
\* when two inputs of a part hold the same key with the same bytes (and no
\* input of the part holds other bytes under it), the part retains exactly one
\* copy and both descriptors record the key as kept.
C6_DedupAnyPolicy ==
  (status = "done" /\ options.deduplication) =>
    \A p \in 1..Len(parts) : \A k \in InputKeys :
      \A i, j \in InputsWithKey(p, k) :
        ( /\ i < j
          /\ \A m \in InputsWithKey(p, k) : PayloadOf(m, k) = PayloadOf(i, k) ) =>
          /\ Cardinality(RecordsAt(p, k)) = 1
          /\ \A r \in RecordsAt(p, k) : NonMeta(parts[p])[r].value = PayloadOf(i, k)
          /\ StateOf(p, i, k) = "kept"
          /\ StateOf(p, j, k) = "kept"

\* the resourceRanges of all descriptors of a part, in descriptor order
RangesOf(part) ==
  Flatten([ d \in 1..Len(Descs(part)) |-> Descs(part)[d].resourceRanges ])

\* C8: within a part the resourceRanges of the descriptors index the part's
\* own record sequence, start at 0, follow one another in input order without
\* gap or overlap and end at the last non-metadata record; the records in a
\* descriptor's ranges are those its input contributed; A(3), B(2), C(4) in one
\* part give [0-2], [3-4], [5-8].
C8_RangesPartition ==
  (status = "done") =>
    \A p \in 1..Len(parts) :
      LET R == RangesOf(parts[p])
          D == Descs(parts[p])
          n == Len(NonMeta(parts[p]))
      IN  /\ \A r \in 1..Len(R) : 0 <= R[r].startIndex /\ R[r].startIndex <= R[r].endIndex
          /\ IF R = <<>> THEN n = 0
             ELSE R[1].startIndex = 0 /\ R[Len(R)].endIndex = n - 1
          /\ \A r \in 1..(Len(R) - 1) : R[r + 1].startIndex = R[r].endIndex + 1
          /\ \A d \in 1..(Len(D) - 1) : D[d].input < D[d + 1].input
          /\ \A d \in 1..Len(D) : \A r \in 1..Len(D[d].resourceRanges) :
               \A x \in D[d].resourceRanges[r].startIndex..D[d].resourceRanges[r].endIndex :
                 NonMeta(parts[p])[x + 1].src = D[d].input
          /\ (inputs = ScenarioInputs /\ n = 9) =>
               R = << [startIndex |-> 0, endIndex |-> 2],
                      [startIndex |-> 3, endIndex |-> 4],
                      [startIndex |-> 5, endIndex |-> 8] >>

C8_Witness ==
  /\ status = "done"
  /\ addFailures = 0
  /\ options.deduplication
  /\ \E p \in 1..Len(parts) :
       /\ Len(RangesOf(parts[p])) >= 2
       /\ \E d \in 1..Len(Descs(parts[p])) : Descs(parts[p])[d].overwrittenCount > 0
       /\ \E d \in 1..Len(Descs(parts[p])) :
            /\ Descs(parts[p])[d].overwrittenCount = 0
            /\ Descs(parts[p])[d].keptCount > 0
            /\ Descs(parts[p])[d].resourceRanges = <<>>

NoSharedKeys ==
  \A i, j \in 1..Len(inputs) : \A k \in InputKeys : (HasKey(i, k) /\ HasKey(j, k)) => i = j

\* C10: round trip: when no two inputs share a key, unmerge of every returned
\* part succeeds with one successful outcome per input placed in the part, in
\* order, and each reconstructed container has the key set and the payload
\* bytes of its input.
C10_RoundTrip ==
  (status = "done" /\ unmerged # <<>> /\ NoSharedKeys) =>
    \A p \in 1..Len(parts) :
      /\ unmerged[p].error = "none"
      /\ Len(unmerged[p].outcomes) = Len(parts[p].placed)
      /\ \A d \in 1..Len(parts[p].placed) :
           /\ unmerged[p].outcomes[d].success
           /\ unmerged[p].outcomes[d].descriptor.input = parts[p].placed[d]
           /\ Range(unmerged[p].outcomes[d].reconstructedContainer)
                = Range(inputs[parts[p].placed[d]])
           /\ Len(unmerged[p].outcomes[d].reconstructedContainer)
                = Len(inputs[parts[p].placed[d]])

\* C11: metadata failures are fatal to the whole unmerge call: a container
\* without a record at the sentinel key gives MetadataMissing, an unknown major
\* version UnsupportedMetadataVersion, an unparsable payload MetadataCorrupt,
\* and a failed unmerge returns no outcome at all.
C11_MetadataFatal ==
  (unmerged # <<>>) =>
    \A p \in 1..Len(parts) :
      /\ (unmerged[p].error # "none") => (unmerged[p].outcomes = <<>>)
      /\ (tamper.part = p /\ tamper.kind = "dropMetadata") =>
           unmerged[p].error = "MetadataMissing"
      /\ (tamper.part = p /\ tamper.kind = "badVersion") =>
           unmerged[p].error = "UnsupportedMetadataVersion"
      /\ (tamper.part = p /\ tamper.kind = "malformed") =>
           unmerged[p].error = "MetadataCorrupt"
      /\ (tamper.part # p \/ tamper.kind = "flipByte") => unmerged[p].error = "none"

C11_Witness ==
  /\ unmerged # <<>>
  /\ Len(parts) = 2
  /\ tamper.part = 1
  /\ tamper.kind = "badVersion"
  /\ Len(parts[1].records) > 1
  /\ unmerged[1].error = "UnsupportedMetadataVersion"
  /\ Len(unmerged[2].outcomes) > 0

\* the descriptors of part p whose resourceRanges cover the record at 1-based
\* position x
OwnersOf(p, x) ==
  { d \in 1..Len(Descs(parts[p])) :
      \E r \in 1..Len(Descs(parts[p])[d].resourceRanges) :
        /\ Descs(parts[p])[d].resourceRanges[r].startIndex <= x - 1
        /\ x - 1 <= Descs(parts[p])[d].resourceRanges[r].endIndex }

\* C12: integrity failures are isolated per descriptor: after the payload of
\* one retained record was changed, unmerge does not fail, exactly the
\* descriptor whose ranges hold that record comes back with success FALSE and
\* lists the key as ResourceIntegrityMismatch, and every other descriptor of
\* every part comes back with success TRUE.
C12_IntegrityIsolated ==
  (unmerged # <<>> /\ tamper.kind = "flipByte") =>
    /\ \A q \in 1..Len(parts) :
         /\ unmerged[q].error = "none"
         /\ Len(unmerged[q].outcomes) = Len(Descs(parts[q]))
    /\ Cardinality(OwnersOf(tamper.part, tamper.index)) = 1
    /\ \A q \in 1..Len(parts) : \A d \in 1..Len(unmerged[q].outcomes) :
         unmerged[q].outcomes[d].success
           <=> ~(q = tamper.part /\ d \in OwnersOf(tamper.part, tamper.index))
    /\ \A d \in OwnersOf(tamper.part, tamper.index) :
         { i.key : i \in { x \in unmerged[tamper.part].outcomes[d].issues :
                             x.kind = "ResourceIntegrityMismatch" } }
           = { parts[tamper.part].records[tamper.index].key }

C12_Witness ==
  /\ unmerged # <<>>
  /\ tamper.kind = "flipByte"
  /\ Len(unmerged[tamper.part].outcomes) >= 2
  /\ \E d \in 1..Len(unmerged[tamper.part].outcomes) :
       ~unmerged[tamper.part].outcomes[d].success
  /\ \E d \in 1..Len(unmerged[tamper.part].outcomes) :
       /\ unmerged[tamper.part].outcomes[d].success
       /\ Len(unmerged[tamper.part].outcomes[d].reconstructedContainer) > 0

\* C13: unmerge never fabricates data: an outcome enumerates exactly the keys
\* its descriptor lost to a collision as missing (PartialReconstruction), the
\* reconstructed container holds no record under such a key, and every record
\* of a reconstructed container is a record of the container that was unmerged.
C13_NeverFabricates ==
  (unmerged # <<>>) =>
    \A p \in 1..Len(parts) : \A d \in 1..Len(unmerged[p].outcomes) :
      LET o    == unmerged[p].outcomes[d]
          lost == { k \in InputKeys : StateOf(p, o.descriptor.input, k) = "overwritten" }
      IN  /\ { i.key : i \in { x \in o.issues : x.kind = "PartialReconstruction" } } = lost
          /\ \A j \in 1..Len(o.reconstructedContainer) :
               /\ o.reconstructedContainer[j].key \notin lost
               /\ \E r \in 1..Len(parts[p].records) :
                    /\ parts[p].records[r].key = o.reconstructedContainer[j].key
                    /\ parts[p].records[r].value = o.reconstructedContainer[j].payload

C13_Witness ==
  /\ unmerged # <<>>
  /\ addFailures = 0
  /\ \E p \in 1..Len(parts) : \E d \in 1..Len(unmerged[p].outcomes) :
       /\ \E x \in unmerged[p].outcomes[d].issues : x.kind = "PartialReconstruction"
       /\ Len(unmerged[p].outcomes[d].reconstructedContainer) > 0
       /\ \E r \in 1..Len(parts[p].records) :
            \E x \in unmerged[p].outcomes[d].issues : parts[p].records[r].key = x.key

\* C14: PolicyConflict is detected before any work: when shadow-original is
\* requested and the format does not support duplicate keys, the run fails
\* with PolicyConflict at its first step; no input was decoded or appended, no
\* part and no descriptor exists; and PolicyConflict arises in no other case.
C14_PolicyConflictFirst ==
  /\ ( /\ status # "idle"
       /\ options.collisionPolicy = "shadow-original"
       /\ ~duplicateKeysSupported )
     => (status = "failed" /\ error = "PolicyConflict")
  /\ (error = "PolicyConflict") =>
       /\ status = "failed"
       /\ options.collisionPolicy = "shadow-original"
       /\ ~duplicateKeysSupported
       /\ next = 1
       /\ addFailures = 0
       /\ cur = EmptyPart
       /\ parts = <<>>
       /\ unmerged = <<>>

C14_Witness ==
  /\ status = "failed"
  /\ error = "PolicyConflict"
  /\ Len(inputs) = 2
  /\ Len(inputs[1]) > 0

\* C15: InputUnreadable aborts the whole group: after an input failed to
\* decode the run is failed and returns nothing - no part finalized by an
\* earlier rollover, no part under construction, no unmerge result - and a
\* failed run never produces anything later.
C15_UnreadableAborts ==
  /\ []( (error = "InputUnreadable") =>
           /\ status = "failed"
           /\ parts = <<>>
           /\ cur = EmptyPart
           /\ unmerged = <<>> )
  /\ [][ (status = "failed") => UNCHANGED << status, error, parts, cur, unmerged >> ]_vars

C15_Witness ==
  /\ status = "failed"
  /\ error = "InputUnreadable"
  /\ next = 3
  /\ addFailures = 0
  /\ Len(inputs[1]) = 2
  /\ Len(inputs[2]) = 2
  /\ options.maxPartSizeBytes = EstimateOf(2)
  /\ parts = <<>>

\* C16: writeFileAtomic is all-or-nothing towards the target.  At every moment,
\* whatever step of whichever call failed or was interrupted and also after a
\* power loss, a reader of the target finds either what the target held before
\* the calls (or nothing, if there was no target) or the complete content of
\* one call; the same holds of the durable state.  It never holds a partial or
\* an empty new file.
C16_AllOrNothing ==
  fsx.state = "used" =>
    /\ TargetHolds(fsx.dir, fsx.data) \in {Untouched} \cup { CompleteOf(w) : w \in Writers }
    /\ TargetHolds(fsx.ddir, fsx.ddata) \in {Untouched} \cup { CompleteOf(w) : w \in Writers }

\* a power loss after a call replaced an existing target whose directory sync
\* failed: the target holds the complete new content
C16_Witness ==
  /\ fsx.state = "used"
  /\ fsx.crashed
  /\ fsx.orig = "old"
  /\ \E w \in Writers :
       /\ fsx.pc[w] = "rejected"
       /\ fsx.failed[w] = "fsyncDir"
       /\ TargetHolds(fsx.dir, fsx.data) = CompleteOf(w)

C18_SortDeterministic ==
  (scan.state = "used" /\ scan.call.op = "sortPackages") =>
    LET packages == scan.call.args
        result == scan.call.result
        forward == SortPackages(packages, scan.sortBy, FALSE)
        n == Len(packages)
    IN  (\A i, j \in 1..n : packages[i].normalizedPath = packages[j].normalizedPath => i = j)
          => /\ \A other \in Rearrangements(packages) :
                  SortPackages(other, scan.sortBy, scan.reverse) = result
             /\ scan.sortBy = "name" =>
                  \A i, j \in 1..n : i < j =>
                    /\ StableCompare(LowerCased(forward[i].name), LowerCased(forward[j].name)) <= 0
                    /\ StableCompare(LowerCased(forward[i].name), LowerCased(forward[j].name)) = 0
                         => StablePathCompare(forward[i].normalizedPath,
                                              forward[j].normalizedPath) <= 0
             /\ scan.sortBy = "mtime" =>
                  \A i, j \in 1..n : i < j =>
                    /\ forward[i].mtime >= forward[j].mtime
                    /\ forward[i].mtime = forward[j].mtime
                         => StablePathCompare(forward[i].normalizedPath,
                                              forward[j].normalizedPath) <= 0
             /\ SortPackages(packages, scan.sortBy, TRUE) = Reversed(forward)
             /\ SortPackages(result, scan.sortBy, scan.reverse) = result

\* C19 (as stated): the paths a file list names appear in the scan result in
\* the order in which the list states them, whatever the sort options are.
C19_FilesOrderWins ==
  (scan.state = "used" /\ scan.call.op = "scanInputs") =>
    LET listed == ExpandFilesList(scan.filesList, scan.snapshot).paths
        result == Paths(scan.call.result.packages)
    IN  \A i, j \in 1..Len(listed) :
          (i < j /\ listed[i] \in Range(result) /\ listed[j] \in Range(result)
                 /\ listed[i] # listed[j]
                 /\ \A k \in 1..(j - 1) : listed[k] # listed[j])
            => IndexOf(result, listed[i]) < IndexOf(result, listed[j])

\* C20: deduplicatePaths keeps the first occurrence of every class of paths
\* with the same normalized form and nothing else: the result is the input
\* restricted to the first occurrences, in the original relative order, no two
\* returned paths have the same normalized form, and the normalized form of
\* every input path is that of exactly one returned path.
C20_DedupFirstOccurrence ==
  (scan.state = "used" /\ scan.call.op = "deduplicatePaths") =>
    LET paths == scan.call.args
        unique == scan.call.result
        firsts == { i \in 1..Len(paths) :
                      \A j \in 1..(i - 1) : NormalizePath(paths[j]) # NormalizePath(paths[i]) }
    IN  /\ unique = Pick(paths, firsts, 1)
        /\ \A i, j \in 1..Len(unique) :
             NormalizePath(unique[i]) = NormalizePath(unique[j]) => i = j
        /\ \A i \in 1..Len(paths) :
             Cardinality({ k \in 1..Len(unique) :
                             NormalizePath(unique[k]) = NormalizePath(paths[i]) }) = 1

\* two different spellings of one path around another path: the first spelling
\* and the other path are kept, the second spelling is dropped
C20_Witness ==
  /\ scan.state = "used"
  /\ scan.call.op = "deduplicatePaths"
  /\ scan.call.args = << << "/", ".", "/", "a" >>, << "/", "b" >>, << "/", "a" >> >>
  /\ scan.call.result = << << "/", ".", "/", "a" >>, << "/", "b" >> >>

\* C21 (as stated): scanInputs collects errors without stopping the scan.  A
\* file list that cannot be read and a list entry that does not exist each add
\* a message containing 'files list', a directory that cannot be enumerated
\* adds a message containing 'enumerate directory', and every file of the
\* remaining sources is still among the returned packages.
C21_ErrorsCollected ==
  (scan.state = "used" /\ scan.call.op = "scanInputs") =>
    LET result == scan.call.result
        Told(needle) == \E i \in 1..Len(result.errors) : Includes(result.errors[i].text, needle)
        ToldAbout(needle, path) ==
          \E i \in 1..Len(result.errors) :
            Includes(result.errors[i].text, needle) /\ result.errors[i].path = path
        offered == (IF scan.listReadable THEN Range(scan.filesList) ELSE {})
                     \cup (IF scan.dirReadable THEN Range(scan.dirPaths) ELSE {})
        returned == { NormalizePath(result.packages[i].path) : i \in 1..Len(result.packages) }
    IN  /\ ~scan.listReadable => Told(<< "files", "list" >>)
        /\ \A i \in 1..Len(scan.filesList) :
             Stat(scan.snapshot, PosixResolve(scan.filesList[i])).kind = "missing"
               => ToldAbout(<< "files", "list" >>, scan.filesList[i])
        /\ ~scan.dirReadable => Told(<< "enumerate", "directory" >>)
        /\ \A path \in offered :
             Stat(scan.snapshot, PosixResolve(path)).kind = "file"
               => NormalizePath(PosixResolve(path)) \in returned

C23_MaxSizePositive ==
  (cli.state = "done" /\ cli.args.maxSize # Absent) =>
    LET size == cli.options.maxSize[1]
    IN  (size.nan \/ size.tenths <= 0) =>
          /\ cli.error # "none"
          /\ ~cli.invoked
          /\ "mergeAll" \notin Range(cli.calls)

\* C24: with dryRun set, runBasic invokes nothing but the scan and the plan
\* (the orchestrator invokes exactly these two, in this order) and resolves to
\* 0; mergeAll, verifyOutputs, writeManifests, writeRunChangelog and
\* writeStatsJson are not invoked, whatever the other options are.
C24_DryRunNoWrites ==
  (cli.state = "done" /\ cli.invoked /\ cli.options.dryRun) =>
    /\ Range(cli.calls) \cap WritingSteps = {}
    /\ Range(cli.calls) \subseteq { "scanInputs", "planMerge" }
    /\ cli.revision = "orchestrator" => cli.calls = << "scanInputs", "planMerge" >>
    /\ cli.exitCode = 0

\* a dry run of the orchestrator with --verify, --stats-json and the changelog
\* all asked for, and a size cap
C24_Witness ==
  /\ cli.state = "done"
  /\ cli.invoked
  /\ cli.revision = "orchestrator"
  /\ cli.options.dryRun
  /\ cli.options.verify
  /\ cli.options.changelog
  /\ Truthy(cli.options.statsJson)
  /\ cli.options.maxSize = << Number(1000) >>
  /\ cli.calls = << "scanInputs", "planMerge" >>

\* C25: every fatal failure names the offending input path and the reason.
\* When loadPackage or mergePackages fails, the error that reaches the caller
\* carries the path of the input file that could not be read (on the error
\* itself, in its message, or on the cause it wraps) and the underlying cause.
C25_FailureNamesPath ==
  (s4tk.state = "used" /\ ~s4tk.result.ok) =>
    LET e == s4tk.result.error
        offending == << s4tk.files[s4tk.index].path >>
    IN  /\ e.filePath = offending \/ e.inMessage = offending \/ e.cause.path = offending
        /\ e.cause # NoCause

\* C30: no empty part is ever emitted.  For a non-empty input list every part
\* mergeGroup returns holds the records of at least one input: an input whose
\* estimated size alone exceeds maxPartSizeBytes gets a part of its own, and
\* no part is finalized before an input was placed in it.
C30_NoEmptyPart ==
  (status = "done" /\ inputs # <<>>) =>
    \A p \in 1..Len(parts) : parts[p].placed # <<>>

\* C26: the sentinel key never collides with a real resource key.  In every
\* returned part the only record at the sentinel key is the part's own
\* metadata record, and unmerge reads that record's descriptors, also when an
\* input (a previously merged container) holds a record at the sentinel key.
C26_SentinelNeverCollides ==
  (status = "done") =>
    \A p \in 1..Len(parts) :
      LET rs  == parts[p].records
          at  == { r \in 1..Len(rs) : rs[r].key = SentinelKey }
          own == DecodeMetadata(parts[p].metadataRecord.value).originalPackages
      IN  /\ \A r \in at : rs[r] = parts[p].metadataRecord
          /\ Cardinality(at) = 1
          /\ (p <= Len(unmerged) /\ unmerged[p].error = "none") =>
               [ d \in 1..Len(unmerged[p].outcomes) |-> unmerged[p].outcomes[d].descriptor ] = own

\* C27: normalizePath is idempotent: normalizing the result of normalizePath
\* again gives back the same string, also for UNC prefixes, extended-length
\* prefixes, drive letters and '..' segments that leave no remainder.
C27_NormalizeIdempotent ==
  (det.state = "paths" /\ Len(det.results) = 2) => det.results[2] = det.results[1]

\* C28: stableCompare is a consistent ordering: a string compares equal to
\* itself, two strings compare equal exactly when their NFC forms are the same,
\* swapping the arguments swaps the sign, the order is transitive, and a sort
\* built on it gives one result for every arrangement of its input.
C28_ConsistentOrdering ==
  (det.state = "keys" /\ det.compared /\ det.sorted # {}) =>
    LET n == Len(det.items)
        cmp == det.deltas
        Sign(x) == IF x < 0 THEN 0 - 1 ELSE IF x > 0 THEN 1 ELSE 0
    IN  /\ \A i \in 1..n : cmp[i][i] = 0
        /\ \A i, j \in 1..n : (cmp[i][j] = 0) <=> (Nfc(det.items[i]) = Nfc(det.items[j]))
        /\ \A i, j \in 1..n : Sign(cmp[i][j]) = 0 - Sign(cmp[j][i])
        /\ \A i, j, k \in 1..n : (cmp[i][j] <= 0 /\ cmp[j][k] <= 0) => cmp[i][k] <= 0
        /\ \A one, other \in det.sorted : one.result = other.result

====
